---- MODULE Spec2Model ----
(***************************************************************************)
(* A model of the SHA1-E3 digest construction engine                       *)
(* (securehash_project/storage/utils/sha1_sponge_collatz_enhanced.py) and  *)
(* of the firewall gateway code that calls it.                             *)
(*                                                                         *)
(* Bytes are the integers 0..255.  Python byte strings are sequences of    *)
(* bytes; a Python index i (0-based) is the TLA+ index i+1.  Integers      *)
(* wider than 31 bits are little-endian sequences of bytes ("words").      *)
(***************************************************************************)
EXTENDS Integers, Sequences, FiniteSets, TLC

(***************************************************************************)
(* Constant tables                                                         *)
(***************************************************************************)
SBOX ==
  << 99, 124, 119, 123, 242, 107, 111, 197,  48,   1, 103,  43, 254, 215, 171, 118,
    202, 130, 201, 125, 250,  89,  71, 240, 173, 212, 162, 175, 156, 164, 114, 192,
    183, 253, 147,  38,  54,  63, 247, 204,  52, 165, 229, 241, 113, 216,  49,  21,
      4, 199,  35, 195,  24, 150,   5, 154,   7,  18, 128, 226, 235,  39, 178, 117,
      9, 131,  44,  26,  27, 110,  90, 160,  82,  59, 214, 179,  41, 227,  47, 132,
     83, 209,   0, 237,  32, 252, 177,  91, 106, 203, 190,  57,  74,  76,  88, 207,
    208, 239, 170, 251,  67,  77,  51, 133,  69, 249,   2, 127,  80,  60, 159, 168,
     81, 163,  64, 143, 146, 157,  56, 245, 188, 182, 218,  33,  16, 255, 243, 210,
    205,  12,  19, 236,  95, 151,  68,  23, 196, 167, 126,  61, 100,  93,  25, 115,
     96, 129,  79, 220,  34,  42, 144, 136,  70, 238, 184,  20, 222,  94,  11, 219,
    224,  50,  58,  10,  73,   6,  36,  92, 194, 211, 172,  98, 145, 149, 228, 121,
    231, 200,  55, 109, 141, 213,  78, 169, 108,  86, 244, 234, 101, 122, 174,   8,
    186, 120,  37,  46,  28, 166, 180, 198, 232, 221, 116,  31,  75, 189, 139, 138,
    112,  62, 181, 102,  72,   3, 246,  14,  97,  53,  87, 185, 134, 193,  29, 158,
    225, 248, 152,  17, 105, 217, 142, 148, 155,  30, 135, 233, 206,  85,  40, 223,
    140, 161, 137,  13, 191, 230,  66, 104,  65, 153,  45,  15, 176,  84, 187,  22 >>

MULTIPLIERS == <<157, 163, 183, 193, 211, 229, 247>>

PRIMES == <<41, 67, 95, 113, 141, 179, 209, 233>>

(***************************************************************************)
(* Bit operations on naturals below 2^31                                   *)
(***************************************************************************)
Pow2(n) == <<1, 2, 4, 8, 16, 32, 64, 128, 256>>[n + 1]

RECURSIVE BitXor(_, _)
BitXor(a, b) ==
  IF a = 0 THEN b
  ELSE IF b = 0 THEN a
  ELSE ((a + b) % 2) + 2 * BitXor(a \div 2, b \div 2)

RECURSIVE BitAnd(_, _)
BitAnd(a, b) ==
  IF a = 0 \/ b = 0 THEN 0
  ELSE ((a % 2) * (b % 2)) + 2 * BitAnd(a \div 2, b \div 2)

BitOr(a, b) == a + b - BitAnd(a, b)

XorNib == [a \in 0..15 |-> [b \in 0..15 |-> BitXor(a, b)]]

Xor8(a, b) == 16 * XorNib[a \div 16][b \div 16] + XorNib[a % 16][b % 16]

PopTab == <<0, 1, 1, 2, 1, 2, 2, 3, 1, 2, 2, 3, 2, 3, 3, 4>>

\* bin(b).count('1') of a byte
popcount(b) == PopTab[(b \div 16) + 1] + PopTab[(b % 16) + 1]

\* (b >> pos) & 1
BitOf(b, pos) == (b \div Pow2(pos)) % 2

\* a faulty variant: byte & 0x7F
sbox_scramble_low7(byte) == SBOX[(byte % 128) + 1]

sbox_scramble(byte) == SBOX[(byte % 256) + 1]

rotl(x, n) ==
  LET m == n % 8
  IN  ((x * Pow2(m)) % 256) + (x \div Pow2(8 - m))

rotr(x, n) ==
  LET m == n % 8
  IN  (x \div Pow2(m)) + ((x * Pow2(8 - m)) % 256)

\* Python buf[i] for a 0-based index i
At(buf, i) == buf[i + 1]

\* Python's i % N for a possibly negative i (N > 0)
PyMod(i, N) == ((i % N) + N) % N

(***************************************************************************)
(* Loops.  A Python "for i in range(lo, hi)" whose body updates st is      *)
(* FoldRange(Body, st, lo, hi); "for i in range(hi, lo - 1, -1)" is        *)
(* FoldDown(Body, st, hi, lo).  The range is split in halves, and the left *)
(* half is evaluated before the right half starts (the test left = left),  *)
(* so that the evaluation depth stays logarithmic in the iteration count.  *)
(***************************************************************************)
FoldRange(Body(_, _), st0, lo, hi) ==
  LET RECURSIVE F(_, _, _)
      RECURSIVE G(_, _, _)
      F(st, a, b) ==
        IF a >= b THEN st
        ELSE IF b = a + 1 THEN Body(st, a)
        ELSE G(F(st, a, (a + b) \div 2), (a + b) \div 2, b)
      G(left, mid, b) == IF left = left THEN F(left, mid, b) ELSE left
  IN  F(st0, lo, hi)

\* the sequence f with every element evaluated once (a function written
\* [n \in 1..N |-> e] is otherwise evaluated again at every f[n])
Bytes(f) == IF f = f THEN f ELSE <<>>

\* F(x) with x evaluated once, before F is applied: "x = ...; F(x)"
Let(x, F(_)) == IF x = x THEN F(x) ELSE F(x)

FoldDown(Body(_, _), st0, hi, lo) ==
  FoldRange(LAMBDA st, k : Body(st, hi - k), st0, 0, hi - lo + 1)

(***************************************************************************)
(* global_mix: two rounds of a forward and a backward pass, in place       *)
(***************************************************************************)
GMForwardStep(out, i, r) ==
  LET N == Len(out)
      b0 == At(out, i)
      b1 == Xor8(b0, rotl(At(out, PyMod(i - 1, N)), 2 + r))
      b2 == Xor8(b1, rotr(At(out, PyMod(i - 2, N)), 3 + r))
      b3 == Xor8(b2, sbox_scramble(At(out, (i + 1) % N)))
      b4 == Xor8(b3, rotl(At(out, (i + 2) % N), 1 + r))
  IN  [out EXCEPT ![i + 1] = sbox_scramble(b4)]

GMBackwardStep(out, i, r) ==
  LET N == Len(out)
      b1 == rotl(At(out, i), 3)
      b2 == Xor8(b1, sbox_scramble(At(out, (i + 1) % N)))
      b3 == Xor8(b2, rotr(At(out, PyMod(i - 1, N)), 2))
      b4 == (b3 * MULTIPLIERS[(r % Len(MULTIPLIERS)) + 1]) % 256
  IN  [out EXCEPT ![i + 1] = b4]

GMRound(out, r) ==
  LET N == Len(out)
      fwd == FoldRange(LAMBDA o, i : GMForwardStep(o, i, r), out, 0, N)
  IN  FoldDown(LAMBDA o, i : GMBackwardStep(o, i, r), fwd, N - 1, 0)

global_mix(buf) == FoldRange(LAMBDA o, r : GMRound(o, r), buf, 0, 2)

(***************************************************************************)
(* break_long_runs: scan the bit stream MSB first, flip value-dependently  *)
(***************************************************************************)
BreakRunsStep(st, i, max_run) ==
  LET out == st.out
      byte_idx == i \div 8
      bit_pos == 7 - (i % 8)
      current == BitOf(At(out, byte_idx), bit_pos)
      rl == IF current = st.current_bit THEN st.run_length + 1 ELSE 1
      flip_byte == At(out, byte_idx)
      flip_pattern == PRIMES[((flip_byte + i) % Len(PRIMES)) + 1]
  IN  IF rl > max_run /\ BitOf(flip_pattern, i % 3) = 1
      THEN [out |-> [out EXCEPT ![byte_idx + 1] = Xor8(flip_byte, Pow2(bit_pos))],
            current_bit |-> 1 - current, run_length |-> 1]
      ELSE [out |-> out, current_bit |-> current, run_length |-> rl]

break_long_runs(data, max_run) ==
  FoldRange(LAMBDA st, i : BreakRunsStep(st, i, max_run),
            [out |-> data, current_bit |-> -1, run_length |-> 0],
            0, Len(data) * 8).out

(***************************************************************************)
(* balance_byte: gentle, bounded, value-dependent bit flipping             *)
(***************************************************************************)
\* the positions (ascending) of the bits of b that equal v
RECURSIVE BitPositions(_, _, _)
BitPositions(b, v, i) ==
  IF i >= 8 THEN <<>>
  ELSE (IF BitOf(b, i) = v THEN <<i>> ELSE <<>>) \o BitPositions(b, v, i + 1)

balance_max_attempts == 8

\* a faulty variant: max_attempts = 2
BalanceClearRunsTwice(b, attempts) ==
  popcount(b) > 5 /\ attempts < 2 /\ BitPositions(b, 1, 0) # <<>>

\* the first loop of balance_byte: its condition (with the break on an empty
\* list folded in) and its body
BalanceClearRuns(b, attempts) ==
  popcount(b) > 5 /\ attempts < balance_max_attempts /\ BitPositions(b, 1, 0) # <<>>

BalanceClearBody(b, attempts) ==
  LET bits == popcount(b)
      set_bits == BitPositions(b, 1, 0)
      idx == ((b * PRIMES[(attempts % Len(PRIMES)) + 1]) + bits) % Len(set_bits)
  IN  <<b - Pow2(set_bits[idx + 1]), attempts + 1>>

RECURSIVE BalanceClear(_, _)
BalanceClear(b, attempts) ==
  IF BalanceClearRuns(b, attempts)
  THEN LET n == BalanceClearBody(b, attempts) IN BalanceClear(n[1], n[2])
  ELSE <<b, attempts>>

\* the second loop of balance_byte
BalanceSetRuns(b, attempts) ==
  popcount(b) < 3 /\ attempts < balance_max_attempts /\ BitPositions(b, 0, 0) # <<>>

BalanceSetBody(b, attempts) ==
  LET bits == popcount(b)
      clear_bits == BitPositions(b, 0, 0)
      idx == ((b * PRIMES[((attempts + 3) % Len(PRIMES)) + 1]) + bits) % Len(clear_bits)
  IN  <<b + Pow2(clear_bits[idx + 1]), attempts + 1>>

RECURSIVE BalanceSet(_, _)
BalanceSet(b, attempts) ==
  IF BalanceSetRuns(b, attempts)
  THEN LET n == BalanceSetBody(b, attempts) IN BalanceSet(n[1], n[2])
  ELSE <<b, attempts>>

\* the value balance_byte returns after its loops left b
BalanceResult(orig, b) ==
  IF popcount(b) > 5 \/ popcount(b) < 3 THEN orig ELSE b

\* TRUE when balance_byte gives up and returns the original byte
BalanceGivesUp(byte) ==
  LET b == byte % 256
      c == BalanceClear(b, 0)
      s == BalanceSet(c[1], c[2])
  IN  ~(popcount(b) <= 5 /\ popcount(b) >= 3)
      /\ (popcount(s[1]) > 5 \/ popcount(s[1]) < 3)

\* a faulty variant: the lowest bit is flipped, as the accelerated mixer does
balance_byte_one_flip(byte) == Xor8(byte % 256, 1)

balance_byte(byte) ==
  LET b == byte % 256
      bits == popcount(b)
      c == BalanceClear(b, 0)
      s == BalanceSet(c[1], c[2])
      final_bits == popcount(s[1])
  IN  IF bits <= 5 /\ bits >= 3 THEN b
      ELSE IF final_bits > 5 \/ final_bits < 3 THEN b
      ELSE s[1]

(***************************************************************************)
(* enhanced_block_mixing(block, position)                                  *)
(***************************************************************************)
Max(a, b) == IF a >= b THEN a ELSE b
Min(a, b) == IF a <= b THEN a ELSE b

chunk_size == 8

MixK1(position) == PRIMES[((position * 3) % Len(PRIMES)) + 1]
MixK2(position) == PRIMES[((position * 5 + 1) % Len(PRIMES)) + 1]
MixK3(position) == MULTIPLIERS[((position * 7) % Len(MULTIPLIERS)) + 1]

\* the buffer after the position-dependent padding to output_size
PadBlock(block, position) ==
  LET output_size == Max(16, Len(block))
      pad_base == (MixK1(position) * MixK2(position) + position) % 256
  IN  Bytes([n \in 1..output_size |->
         IF n <= Len(block) THEN block[n]
         ELSE sbox_scramble((pad_base + (n - 1) * MixK3(position)) % 256)])

\* the chunk that starts at buffer index i, padded to chunk_size
RECURSIVE PadChunk(_, _, _)
PadChunk(chunk, pad_val, position) ==
  IF Len(chunk) >= chunk_size THEN chunk
  ELSE LET nxt == sbox_scramble((pad_val * MixK2(position) + MixK3(position)) % 256)
       IN  PadChunk(Append(chunk, nxt), nxt, position)

ChunkAt(buffer, i, position) ==
  PadChunk(SubSeq(buffer, i + 1, Min(i + chunk_size, Len(buffer))),
           (MixK1(position) + i) % 256, position)

\* the chunk XORed with the rotated previous mixed chunk
ChunkFeedback(chunk0, prev_chunk, position) ==
  IF prev_chunk = <<>> THEN chunk0
  ELSE Bytes([n \in 1..Len(chunk0) |->
          Xor8(chunk0[n], rotl(prev_chunk[n], (position + (n - 1)) % 8))])

\* the S-box, rotation, multiplication and S-box of every byte of a chunk
ChunkScramble(chunk2, idx, position) ==
  Bytes([n \in 1..Len(chunk2) |->
     sbox_scramble(
       (rotl(sbox_scramble(chunk2[n]), (position + idx + (n - 1)) % 8)
          * MixK3(position) + MixK1(position)) % 256)])

\* one iteration of the loop over the chunks, for chunk number idx
MixChunkStep(st, idx, buffer, position) ==
  Let(global_mix(ChunkFeedback(ChunkAt(buffer, idx * chunk_size, position),
                               st.prev_chunk, position)),
      LAMBDA chunk2 :
        Let(global_mix(ChunkScramble(chunk2, idx, position)),
            LAMBDA chunk4 :
              [result |-> st.result \o chunk4, prev_chunk |-> chunk4]))

MixChunks(buffer, position) ==
  LET nchunks == (Len(buffer) + chunk_size - 1) \div chunk_size
  IN  FoldRange(LAMBDA st, idx : MixChunkStep(st, idx, buffer, position),
                [result |-> <<>>, prev_chunk |-> <<>>], 0, nchunks).result

\* result[i] ^= rotl(result[(i + dist) % N], rot), in place
XorNeighbourStep(result, i, dist, rot) ==
  LET N == Len(result)
  IN  [result EXCEPT ![i + 1] = Xor8(@, rotl(At(result, PyMod(i + dist, N)), rot))]

\* the three neighbour passes (distance 1, 5 and -2)
MixNeighbours(r1) ==
  Let(FoldRange(LAMBDA r, i : XorNeighbourStep(r, i, 1, 3), r1, 0, Len(r1)),
      LAMBDA r2 :
        Let(FoldRange(LAMBDA r, i : XorNeighbourStep(r, i, 5, 5), r2, 0, Len(r2)),
            LAMBDA r3 :
              FoldDown(LAMBDA r, i : XorNeighbourStep(r, i, -2, 4), r3, Len(r3) - 1, 0)))

\* the S-box layer, the global mix and the two last XOR passes
MixSubstitute(r4) ==
  Let(global_mix(Bytes([n \in 1..Len(r4) |-> sbox_scramble(r4[n])])),
      LAMBDA r6 :
        Let(FoldRange(LAMBDA r, i :
                        [r EXCEPT ![i + 1] =
                           Xor8(@, sbox_scramble(At(r, (i * 7 + 3) % Len(r))))],
                      r6, 0, Len(r6)),
            LAMBDA r7 :
              FoldRange(LAMBDA r, i : [r EXCEPT ![i + 1] = Xor8(@, At(r, Len(r) - 1 - i))],
                        r7, 0, Len(r7))))

\* a faulty variant: the chunks are not truncated to output_size
output_size_whole_chunks(block) ==
  ((Max(16, Len(block)) + chunk_size - 1) \div chunk_size) * chunk_size

\* output_size = max(16, len(block)) (line 662)
output_size(block) == Max(16, Len(block))

\* everything up to and including the XOR with the reverse position
MixDiffuse(block, position) ==
  Let(SubSeq(MixChunks(PadBlock(block, position), position), 1, output_size(block)),
      LAMBDA r0 :
        Let(global_mix(r0),
            LAMBDA g1 :
              Let(global_mix(g1),
                  LAMBDA g2 :
                    Let(global_mix(g2),
                        LAMBDA r1 :
                          Let(MixNeighbours(r1), LAMBDA r4 : MixSubstitute(r4))))))

\* the value-dependent permutation: perm after the swap scan
MixPerm(result) ==
  LET N == Len(result)
  IN  FoldDown(LAMBDA perm, i :
                 LET j == (At(result, i) + At(result, N - 1 - i)) % (i + 1)
                 IN  [perm EXCEPT ![i + 1] = perm[j + 1], ![j + 1] = perm[i + 1]],
               Bytes([n \in 1..N |-> n - 1]), N - 1, 1)

MixShuffle(result) ==
  Let(MixPerm(result),
      LAMBDA perm :
        Bytes([n \in 1..Len(result) |->
                 Xor8(result[n], sbox_scramble(At(result, perm[n])))]))

\* the longest run of identical bits as the scan of the code counts it
MaxRunStep(st, i, result) ==
  LET bit == BitOf(At(result, i \div 8), 7 - (i % 8))
  IN  IF bit = st.current_bit
      THEN [current_bit |-> bit, run_length |-> st.run_length + 1,
            max_run |-> Max(st.max_run, st.run_length + 1)]
      ELSE [current_bit |-> bit, run_length |-> 1, max_run |-> st.max_run]

MaxRun(result) ==
  FoldRange(LAMBDA st, i : MaxRunStep(st, i, result),
            [current_bit |-> -1, run_length |-> 0, max_run |-> 0],
            0, Len(result) * 8).max_run

\* a faulty variant: no final balancing
MixBalanceSkipped(r1) == r1

\* the final balancing: balance_byte on the bytes outside 3..5 set bits
MixBalance(r1) ==
  Bytes([n \in 1..Len(r1) |->
     IF popcount(r1[n]) > 5 \/ popcount(r1[n]) < 3
     THEN balance_byte(r1[n]) ELSE r1[n]])

enhanced_block_mixing(block, position) ==
  Let(MixDiffuse(block, position),
      LAMBDA d :
        Let(MixShuffle(d),
            LAMBDA r0 :
              Let(IF MaxRun(r0) > 14 THEN break_long_runs(r0, 14) ELSE r0,
                  LAMBDA r1 : MixBalance(r1))))

\* the accelerated variant: no permutation, no run breaking, one-bit balance
enhanced_block_mixing_jit(block, position) ==
  Let(MixDiffuse(block, position),
      LAMBDA r0 :
        Bytes([n \in 1..Len(r0) |->
           IF popcount(r0[n]) > 5 \/ popcount(r0[n]) < 3
           THEN Xor8(r0[n], 1) ELSE r0[n]]))

(***************************************************************************)
(* Words: Python integers of up to 40 bits as 5 bytes, least significant   *)
(* first.  The Collatz generator masks to 32 bits (& 0xFFFFFFFF) almost    *)
(* everywhere; the fifth byte holds what an unmasked value carries above.  *)
(***************************************************************************)
AndNib == [a \in 0..15 |-> [b \in 0..15 |-> BitAnd(a, b)]]

And8(a, b) == 16 * AndNib[a \div 16][b \div 16] + AndNib[a % 16][b % 16]

Or8(a, b) == a + b - And8(a, b)

\* the word of a natural below 2^31
Word(n) ==
  <<n % 256, (n \div 256) % 256, (n \div 65536) % 256, (n \div 16777216) % 256, 0>>

WByte(w, k) == IF k >= 0 /\ k < Len(w) THEN w[k + 1] ELSE 0

\* w & 0xFFFFFFFF
Mask32(w) == <<w[1], w[2], w[3], w[4], 0>>

WXor(a, b) ==
  <<Xor8(a[1], b[1]), Xor8(a[2], b[2]), Xor8(a[3], b[3]), Xor8(a[4], b[4]),
    Xor8(a[5], b[5])>>

\* (a + b) of two words, as a word (the carry out of the fifth byte is lost;
\* the sums of the code stay below 2^40)
WAdd(a, b) ==
  LET c1 == (a[1] + b[1]) \div 256
      c2 == (a[2] + b[2] + c1) \div 256
      c3 == (a[3] + b[3] + c2) \div 256
      c4 == (a[4] + b[4] + c3) \div 256
  IN  <<(a[1] + b[1]) % 256, (a[2] + b[2] + c1) % 256, (a[3] + b[3] + c2) % 256,
        (a[4] + b[4] + c3) % 256, (a[5] + b[5] + c4) % 256>>

\* (a * b) & 0xFFFFFFFF
WMul32(a, b) ==
  LET s0 == a[1] * b[1]
      s1 == a[1] * b[2] + a[2] * b[1] + (s0 \div 256)
      s2 == a[1] * b[3] + a[2] * b[2] + a[3] * b[1] + (s1 \div 256)
      s3 == a[1] * b[4] + a[2] * b[3] + a[3] * b[2] + a[4] * b[1] + (s2 \div 256)
  IN  <<s0 % 256, s1 % 256, s2 % 256, s3 % 256, 0>>

\* (w << n) & 0xFFFFFFFF for 0 <= n < 32
WShl32(w, n) ==
  LET q == n \div 8
      m == n % 8
      B(k) == ((WByte(w, k - 1 - q) * Pow2(m)) % 256)
              + (WByte(w, k - 2 - q) \div Pow2(8 - m))
  IN  <<B(1), B(2), B(3), B(4), 0>>

\* w >> n for 0 <= n < 40
WShr(w, n) ==
  LET q == n \div 8
      m == n % 8
      B(k) == (WByte(w, k - 1 + q) \div Pow2(m))
              + ((WByte(w, k + q) * Pow2(8 - m)) % 256)
  IN  <<B(1), B(2), B(3), B(4), B(5)>>

WOr(a, b) ==
  <<Or8(a[1], b[1]), Or8(a[2], b[2]), Or8(a[3], b[3]), Or8(a[4], b[4]),
    Or8(a[5], b[5])>>

\* bit j of format(w, '032b'), j = 0 the most significant of the 32
WBit(w, j) == BitOf(w[((31 - j) \div 8) + 1], (31 - j) % 8)

\* w ^ (1 << (31 - j))
WFlip(w, j) ==
  [w EXCEPT ![((31 - j) \div 8) + 1] = Xor8(@, Pow2((31 - j) % 8))]

(***************************************************************************)
(* mix_state, the closure of strengthened_collatz_sequence.  Its nonlocal  *)
(* variables max_run_length, current_run, last_bit are written before they *)
(* are read in every call and never reach the returned value.              *)
(***************************************************************************)
COLLATZ_PRIMES == << <<245, 121, 43, 109, 0>>, <<125, 86, 52, 18, 0>> >>

\* the initial rotations and multiplications (lines 432-435)
MixScramble(val) ==
  LET v1 == Mask32(WOr(WShl32(val, 7), WShr(val, 25)))
      v2 == WMul32(v1, COLLATZ_PRIMES[1])
      v3 == Mask32(WOr(WShl32(v2, 13), WShr(v2, 19)))
  IN  WMul32(v3, COLLATZ_PRIMES[2])

\* the list of (bit, length) runs of format(val, '032b')
MixRunsStep(st, j, val) ==
  LET bit == WBit(val, j)
  IN  IF bit = st.last_bit
      THEN [st EXCEPT !.current_run = @ + 1]
      ELSE [runs |-> IF st.last_bit = -1 THEN st.runs
                     ELSE Append(st.runs, <<st.last_bit, st.current_run>>),
            current_run |-> 1, last_bit |-> bit]

MixRuns(val) ==
  LET st == FoldRange(LAMBDA t, j : MixRunsStep(t, j, val),
                      [runs |-> <<>>, current_run |-> 0, last_bit |-> -1], 0, 32)
  IN  Append(st.runs, <<st.last_bit, st.current_run>>)

\* flip the bits pos+7, pos+14, ... of every run longer than 14
RECURSIVE FlipEvery7(_, _, _)
FlipEvery7(val, j, end) ==
  IF j >= end THEN val
  ELSE FlipEvery7(IF j < 32 THEN WFlip(val, j) ELSE val, j + 7, end)

MixBreakRunsOf(val, runs) ==
  FoldRange(LAMBDA st, i :
              [val |-> IF runs[i + 1][2] > 14
                       THEN FlipEvery7(st.val, st.pos + 7, st.pos + runs[i + 1][2])
                       ELSE st.val,
               pos |-> st.pos + runs[i + 1][2]],
            [val |-> val, pos |-> 0], 0, Len(runs)).val

MixBreakRuns(val) == Let(MixRuns(val), LAMBDA runs : MixBreakRunsOf(val, runs))

\* mix_state without its byte-level bit balance
MixByteBalanceOff(val) == val

\* val |= 0x55 << i for a byte with too few bits, val &= ~(0x55 << i) for
\* one with too many
MixByteBalance(val) ==
  LET B(byte) == IF popcount(byte) < 3 THEN Or8(byte, 85)
                 ELSE IF popcount(byte) > 5 THEN And8(byte, 170)
                 ELSE byte
  IN  <<B(val[1]), B(val[2]), B(val[3]), B(val[4]), val[5]>>

mix_state(val) ==
  Let(MixScramble(val),
      LAMBDA v : Let(MixBreakRuns(v), LAMBDA b : MixByteBalance(b)))

\* the run breaking of mix_state_jit: the bit that makes a run 21 or 28 long
MixBreakRunsJitStep(st, j) ==
  LET bit == WBit(st.val, j)
  IN  IF bit = st.prev_bit
      THEN [val |-> IF st.current_run + 1 > 14 /\ (st.current_run + 1) % 7 = 0
                    THEN WFlip(st.val, j) ELSE st.val,
            current_run |-> st.current_run + 1, prev_bit |-> bit]
      ELSE [val |-> st.val, current_run |-> 1, prev_bit |-> bit]

\* max_run_in_val of mix_state_jit
MixMaxRunJit(val) ==
  FoldRange(LAMBDA st, j :
              LET bit == WBit(val, j)
              IN  IF bit = st.prev_bit
                  THEN [prev_bit |-> bit, current_run |-> st.current_run + 1,
                        max_run |-> Max(st.max_run, st.current_run + 1)]
                  ELSE [prev_bit |-> bit, current_run |-> 1, max_run |-> st.max_run],
            [prev_bit |-> -1, current_run |-> 0, max_run |-> 0], 0, 32).max_run

mix_state_jit(val) ==
  Let(MixScramble(val),
      LAMBDA v :
        Let(IF MixMaxRunJit(v) > 14
            THEN FoldRange(MixBreakRunsJitStep,
                           [val |-> v, current_run |-> 0, prev_bit |-> -1], 0, 32).val
            ELSE v,
            LAMBDA b : MixByteBalance(b)))

(***************************************************************************)
(* strengthened_collatz_sequence(seed): the locals of one call as a record *)
(* and one iteration of each of its loops as an operator on that record.   *)
(***************************************************************************)
WOne == Word(1)

IsEven(w) == w[1] % 2 = 0

\* (3 * w + 1) & 0xFFFFFFFF
ThreeNPlusOne(w) == Mask32(WAdd(WAdd(WAdd(w, w), w), WOne))

\* "Bit balance control": state ^= (1 << i) for every byte out of balance
FlipOutliers(state) ==
  LET B(byte) == IF popcount(byte) < 3 \/ popcount(byte) > 5
                 THEN Xor8(byte, 1) ELSE byte
  IN  <<B(state[1]), B(state[2]), B(state[3]), B(state[4]), state[5]>>

\* state = (state & ~(0xFF << i)) | (balance_byte(byte, 4) << i), i = 0, 8, 16, 24
BalanceBytes(state) ==
  <<balance_byte(state[1]), balance_byte(state[2]), balance_byte(state[3]),
    balance_byte(state[4]), state[5]>>

\* a faulty variant: state = seed, without the mask
CollatzStartUnmasked(seed) ==
  [state |-> seed, sequence |-> <<>>, previous_states |-> {}, sequence_length |-> 0]

CollatzStart(seed) ==
  [state |-> Mask32(seed), sequence |-> <<>>, previous_states |-> {},
   sequence_length |-> 0]

FirstLoopCap == 100
SecondLoopCap == 1000

\* a faulty variant: the first loop without its test state != 1
FirstLoopGuardCapOnly(cz) == cz.sequence_length < FirstLoopCap

FirstLoopGuard(cz) == cz.state # WOne /\ cz.sequence_length < FirstLoopCap

\* the Collatz branch of the first loop on the mixed state s1
FirstLoopBranch(s1) ==
  IF IsEven(s1) THEN mix_state(WShr(s1, 1)) ELSE mix_state(ThreeNPlusOne(s1))

\* one iteration of the first loop (lines 489-515)
FirstLoopStep(cz) ==
  Let(FirstLoopBranch(mix_state(cz.state)),
      LAMBDA s2 :
        Let(IF s2 \in (cz.previous_states \cup {cz.state})
            THEN mix_state(WXor(cz.state, Word(cz.sequence_length + 1)))
            ELSE s2,
            LAMBDA s3 :
              [state |-> FlipOutliers(s3),
               sequence |-> Append(cz.sequence, cz.state),
               previous_states |-> cz.previous_states \cup {cz.state},
               sequence_length |-> cz.sequence_length + 1]))

FirstLoopBranchJit(s1) ==
  IF IsEven(s1) THEN mix_state_jit(WShr(s1, 1)) ELSE mix_state_jit(ThreeNPlusOne(s1))

\* one iteration of the loop of _strengthened_collatz_sequence_jit (364-394)
FirstLoopStepJit(cz) ==
  Let(FirstLoopBranchJit(mix_state_jit(cz.state)),
      LAMBDA s2 :
        Let(IF s2 = cz.state
            THEN mix_state_jit(WXor(cz.state, Word(cz.sequence_length + 1)))
            ELSE s2,
            LAMBDA s3 :
              [state |-> FlipOutliers(s3),
               sequence |-> Append(cz.sequence, cz.state),
               previous_states |-> cz.previous_states,
               sequence_length |-> cz.sequence_length + 1]))

\* "sequence_length = 0" between the two loops (line 517)
SecondLoopEnter(cz) == [cz EXCEPT !.sequence_length = 0]

\* a faulty variant: the second loop without its iteration cap
SecondLoopGuardUncapped(cz) == cz.state # WOne

SecondLoopGuard(cz) == cz.state # WOne /\ cz.sequence_length < SecondLoopCap

\* sequence[-4:]
LastFour(sequence) ==
  SubSeq(sequence, Max(1, Len(sequence) - 3), Len(sequence))

\* the XOR of (prev * PRIMES[i % 2]) & 0xFFFFFFFF over sequence[-4:]
HistoryMix(sequence) ==
  LET last == LastFour(sequence)
  IN  FoldRange(LAMBDA h, i :
                  WXor(h, WMul32(last[i + 1], COLLATZ_PRIMES[(i % 2) + 1])),
                Word(0), 0, Len(last))

\* sum(sequence[-4:])
SumLastFour(sequence) ==
  LET last == LastFour(sequence)
  IN  FoldRange(LAMBDA h, i : WAdd(h, last[i + 1]), Word(0), 0, Len(last))

\* the Collatz step with shifts of the second loop on the balanced state
SecondLoopShift(state0) ==
  IF IsEven(state0)
  THEN Mask32(WXor(WShr(state0, 1), WShl32(state0, 2)))
  ELSE Let(ThreeNPlusOne(state0),
           LAMBDA base : Mask32(WXor(WShr(base, 3), WShl32(base, 5))))

\* the cycle guard of the second loop: prev_state is the balanced state
SecondLoopFresh(state2, prev_state, sequence, previous_states, sequence_length) ==
  IF state2 \in previous_states
  THEN BalanceBytes(WXor(Mask32(WAdd(WMul32(prev_state, COLLATZ_PRIMES[1]),
                                     Word(sequence_length))),
                         IF Len(sequence) >= 4 THEN SumLastFour(sequence)
                         ELSE prev_state))
  ELSE state2

\* the second loop after "sequence.append(state)": state0 is the balanced
\* state, sequence and previous_states already hold it
SecondLoopBody(state0, sequence, previous_states, sequence_length) ==
  Let(BalanceBytes(mix_state(SecondLoopShift(state0))),
      LAMBDA state1 :
        Let(IF sequence_length % 4 = 0
            THEN BalanceBytes(WXor(state1, HistoryMix(sequence)))
            ELSE state1,
            LAMBDA state2 :
              [state |-> mix_state(SecondLoopFresh(state2, state0, sequence,
                                                   previous_states, sequence_length)),
               sequence |-> sequence,
               previous_states |-> previous_states,
               sequence_length |-> sequence_length]))

\* one iteration of the second loop (lines 518-573)
SecondLoopStep(cz) ==
  Let(BalanceBytes(cz.state),
      LAMBDA state0 :
        SecondLoopBody(state0, Append(cz.sequence, state0),
                       cz.previous_states \cup {state0}, cz.sequence_length + 1))

\* the first loop for at most n iterations: what a caller that reads only
\* sequence[:n] needs of the whole call
FirstLoopRun(cz0, jit, n) ==
  FoldRange(LAMBDA cz, i :
              IF ~FirstLoopGuard(cz) THEN cz
              ELSE IF jit THEN FirstLoopStepJit(cz) ELSE FirstLoopStep(cz),
            cz0, 0, n)

SequencePrefix(seed, jit, n) == FirstLoopRun(CollatzStart(seed), jit, n).sequence

(***************************************************************************)
(* hashlib.sha1: the accumulator is the message fed so far (update appends *)
(* to it), digest() is SHA-1 of that message (FIPS 180-4).  32-bit words   *)
(* are words whose fifth byte is 0.                                        *)
(***************************************************************************)
Rotl32(w, n) == Mask32(WOr(WShl32(w, n), WShr(w, 32 - n)))

Add32(a, b) == Mask32(WAdd(a, b))

WAnd(a, b) == <<And8(a[1], b[1]), And8(a[2], b[2]), And8(a[3], b[3]), And8(a[4], b[4]), 0>>

WNot32(a) == <<255 - a[1], 255 - a[2], 255 - a[3], 255 - a[4], 0>>

SHA1_H0 == <<<<1, 35, 69, 103, 0>>, <<137, 171, 205, 239, 0>>, <<254, 220, 186, 152, 0>>, <<118, 84, 50, 16, 0>>, <<240, 225, 210, 195, 0>>>>

SHA1_K == <<<<153, 121, 130, 90, 0>>, <<161, 235, 217, 110, 0>>, <<220, 188, 27, 143, 0>>, <<214, 193, 98, 202, 0>>>>

\* the message with the padding: 0x80, zeros, the bit length in 8 bytes
\* (messages are shorter than 2^28 bytes)
Sha1Pad(msg) ==
  LET L == Len(msg)
      zeros == (119 - (L % 64)) % 64
      bits == L * 8
      total == L + 1 + zeros + 8
  IN  Bytes([n \in 1..total |->
         IF n <= L THEN msg[n]
         ELSE IF n = L + 1 THEN 128
         ELSE IF n = total - 3 THEN (bits \div 16777216) % 256
         ELSE IF n = total - 2 THEN (bits \div 65536) % 256
         ELSE IF n = total - 1 THEN (bits \div 256) % 256
         ELSE IF n = total THEN bits % 256
         ELSE 0])

\* the 80 words of the message schedule of the block that starts at byte off
Sha1Schedule(padded, off) ==
  LET w16 == Bytes([t \in 1..16 |->
                <<padded[off + 4 * t], padded[off + 4 * t - 1],
                  padded[off + 4 * t - 2], padded[off + 4 * t - 3], 0>>])
  IN  FoldRange(LAMBDA w, t :
                  Append(w, Rotl32(WXor(WXor(w[t - 2], w[t - 7]),
                                        WXor(w[t - 13], w[t - 15])), 1)),
                w16, 16, 80)

Sha1F(t, b, c, d) ==
  IF t < 20 THEN WOr(WAnd(b, c), WAnd(WNot32(b), d))
  ELSE IF t < 40 THEN WXor(WXor(b, c), d)
  ELSE IF t < 60 THEN WOr(WOr(WAnd(b, c), WAnd(b, d)), WAnd(c, d))
  ELSE WXor(WXor(b, c), d)

Sha1Round(v, t, w) ==
  <<Add32(Add32(Add32(Add32(Rotl32(v[1], 5), Sha1F(t, v[2], v[3], v[4])), v[5]),
                SHA1_K[(t \div 20) + 1]),
          w[t + 1]),
    v[1], Rotl32(v[2], 30), v[3], v[4]>>

Sha1Block(h, blk, padded) ==
  Let(Sha1Schedule(padded, 64 * blk),
      LAMBDA w :
        Let(FoldRange(LAMBDA x, t : Sha1Round(x, t, w), h, 0, 80),
            LAMBDA v :
              <<Add32(h[1], v[1]), Add32(h[2], v[2]), Add32(h[3], v[3]),
                Add32(h[4], v[4]), Add32(h[5], v[5])>>))

\* hashlib.sha1(msg).digest(): 20 bytes
Sha1Digest(msg) ==
  Let(Sha1Pad(msg),
      LAMBDA padded :
        Let(FoldRange(LAMBDA x, blk : Sha1Block(x, blk, padded), SHA1_H0,
                      0, Len(padded) \div 64),
            LAMBDA h :
              Bytes([n \in 1..20 |-> h[((n - 1) \div 4) + 1][4 - ((n - 1) % 4)]])))

(***************************************************************************)
(* hashlib.blake2b(digest_size = n): BLAKE2b (RFC 7693) without key.       *)
(* 64-bit words are 8 bytes, least significant first.                      *)
(***************************************************************************)
BLAKE2B_IV == <<<<8, 201, 188, 243, 103, 230, 9, 106>>,
               <<59, 167, 202, 132, 133, 174, 103, 187>>,
               <<43, 248, 148, 254, 114, 243, 110, 60>>,
               <<241, 54, 29, 95, 58, 245, 79, 165>>,
               <<209, 130, 230, 173, 127, 82, 14, 81>>,
               <<31, 108, 62, 43, 140, 104, 5, 155>>,
               <<107, 189, 65, 251, 171, 217, 131, 31>>,
               <<121, 33, 126, 19, 25, 205, 224, 91>>>>

BLAKE2B_SIGMA == <<<<0, 1, 2, 3, 4, 5, 6, 7, 8, 9, 10, 11, 12, 13, 14, 15>>,
                  <<14, 10, 4, 8, 9, 15, 13, 6, 1, 12, 0, 2, 11, 7, 5, 3>>,
                  <<11, 8, 12, 0, 5, 2, 15, 13, 10, 14, 3, 6, 7, 1, 9, 4>>,
                  <<7, 9, 3, 1, 13, 12, 11, 14, 2, 6, 5, 10, 4, 0, 15, 8>>,
                  <<9, 0, 5, 7, 2, 4, 10, 15, 14, 1, 11, 12, 6, 8, 3, 13>>,
                  <<2, 12, 6, 10, 0, 11, 8, 3, 4, 13, 7, 5, 15, 14, 1, 9>>,
                  <<12, 5, 1, 15, 14, 13, 4, 10, 0, 7, 6, 3, 9, 2, 8, 11>>,
                  <<13, 11, 7, 14, 12, 1, 3, 9, 5, 0, 15, 4, 8, 6, 2, 10>>,
                  <<6, 15, 14, 9, 11, 3, 0, 8, 12, 2, 13, 7, 1, 4, 10, 5>>,
                  <<10, 2, 8, 4, 7, 6, 1, 5, 15, 11, 9, 14, 3, 12, 13, 0>>>>

QXor(a, b) ==
  <<Xor8(a[1], b[1]), Xor8(a[2], b[2]), Xor8(a[3], b[3]), Xor8(a[4], b[4]),
    Xor8(a[5], b[5]), Xor8(a[6], b[6]), Xor8(a[7], b[7]), Xor8(a[8], b[8])>>

QAdd(a, b) ==
  LET s1 == a[1] + b[1]
      s2 == a[2] + b[2] + (s1 \div 256)
      s3 == a[3] + b[3] + (s2 \div 256)
      s4 == a[4] + b[4] + (s3 \div 256)
      s5 == a[5] + b[5] + (s4 \div 256)
      s6 == a[6] + b[6] + (s5 \div 256)
      s7 == a[7] + b[7] + (s6 \div 256)
      s8 == a[8] + b[8] + (s7 \div 256)
  IN  <<s1 % 256, s2 % 256, s3 % 256, s4 % 256, s5 % 256, s6 % 256, s7 % 256,
        s8 % 256>>

\* rotate right by 8 * q bits
QRotrBytes(a, q) ==
  <<a[((q) % 8) + 1], a[((1 + q) % 8) + 1], a[((2 + q) % 8) + 1],
    a[((3 + q) % 8) + 1], a[((4 + q) % 8) + 1], a[((5 + q) % 8) + 1],
    a[((6 + q) % 8) + 1], a[((7 + q) % 8) + 1]>>

\* rotate right by 63 bits = rotate left by 1
QRotr63(a) ==
  LET B(k) == ((a[k] * 2) % 256) + (a[((k + 6) % 8) + 1] \div 128)
  IN  <<B(1), B(2), B(3), B(4), B(5), B(6), B(7), B(8)>>

\* the word of a natural below 2^31
QWord(n) ==
  <<n % 256, (n \div 256) % 256, (n \div 65536) % 256, (n \div 16777216) % 256,
    0, 0, 0, 0>>

\* the second half of G, on the words after the first half
Blake2bG2(v, a, b, c, d, y, a1, b1, c1, d1) ==
  Let(QAdd(QAdd(a1, b1), y),
      LAMBDA a2 :
        Let(QRotrBytes(QXor(d1, a2), 2),
            LAMBDA d2 :
              Let(QAdd(c1, d2),
                  LAMBDA c2 :
                    [v EXCEPT ![a] = a2, ![b] = QRotr63(QXor(b1, c2)),
                              ![c] = c2, ![d] = d2])))

Blake2bG(v, a, b, c, d, x, y) ==
  Let(QAdd(QAdd(v[a], v[b]), x),
      LAMBDA a1 :
        Let(QRotrBytes(QXor(v[d], a1), 4),
            LAMBDA d1 :
              Let(QAdd(v[c], d1),
                  LAMBDA c1 :
                    Blake2bG2(v, a, b, c, d, y, a1,
                              QRotrBytes(QXor(v[b], c1), 3), c1, d1))))

\* the message word that SIGMA selects for step k of round r
Blake2bM(m, r, k) == m[BLAKE2B_SIGMA[(r % 10) + 1][k + 1] + 1]

Blake2bColumns(v, r, m) ==
  Blake2bG(Blake2bG(Blake2bG(Blake2bG(v,
    1, 5, 9, 13, Blake2bM(m, r, 0), Blake2bM(m, r, 1)),
    2, 6, 10, 14, Blake2bM(m, r, 2), Blake2bM(m, r, 3)),
    3, 7, 11, 15, Blake2bM(m, r, 4), Blake2bM(m, r, 5)),
    4, 8, 12, 16, Blake2bM(m, r, 6), Blake2bM(m, r, 7))

Blake2bDiagonals(v, r, m) ==
  Blake2bG(Blake2bG(Blake2bG(Blake2bG(v,
    1, 6, 11, 16, Blake2bM(m, r, 8), Blake2bM(m, r, 9)),
    2, 7, 12, 13, Blake2bM(m, r, 10), Blake2bM(m, r, 11)),
    3, 8, 9, 14, Blake2bM(m, r, 12), Blake2bM(m, r, 13)),
    4, 5, 10, 15, Blake2bM(m, r, 14), Blake2bM(m, r, 15))

Blake2bRound(v, r, m) == Blake2bDiagonals(Blake2bColumns(v, r, m), r, m)

\* the compression of the 128-byte block that starts at byte off of data
\* (zero padded), with t bytes counted so far
Blake2bWords(data, off) ==
  Bytes([k \in 1..16 |->
     LET B(j) == IF off + 8 * (k - 1) + j <= Len(data)
                 THEN data[off + 8 * (k - 1) + j] ELSE 0
     IN  <<B(1), B(2), B(3), B(4), B(5), B(6), B(7), B(8)>>])

Blake2bV0(h, t, last) ==
  <<h[1], h[2], h[3], h[4], h[5], h[6], h[7], h[8],
    BLAKE2B_IV[1], BLAKE2B_IV[2], BLAKE2B_IV[3], BLAKE2B_IV[4],
    QXor(BLAKE2B_IV[5], QWord(t)), BLAKE2B_IV[6],
    IF last THEN QXor(BLAKE2B_IV[7], <<255, 255, 255, 255, 255, 255, 255, 255>>)
    ELSE BLAKE2B_IV[7],
    BLAKE2B_IV[8]>>

Blake2bCompress(h, data, off, t, last) ==
  Let(Blake2bWords(data, off),
      LAMBDA m :
        Let(FoldRange(LAMBDA x, r : Blake2bRound(x, r, m), Blake2bV0(h, t, last), 0, 12),
            LAMBDA v : Bytes([k \in 1..8 |-> QXor(QXor(h[k], v[k]), v[k + 8])])))

\* hashlib.blake2b(data, digest_size = digest_size).digest()
Blake2bBlocks(data) == Max(1, (Len(data) + 127) \div 128)

Blake2bDigest(data, digest_size) ==
  Let(FoldRange(LAMBDA x, blk :
                  Blake2bCompress(x, data, 128 * blk,
                                  IF blk = Blake2bBlocks(data) - 1 THEN Len(data)
                                  ELSE 128 * (blk + 1),
                                  blk = Blake2bBlocks(data) - 1),
                [BLAKE2B_IV EXCEPT ![1] = QXor(@, QWord(16842752 + digest_size))],
                0, Blake2bBlocks(data)),
      LAMBDA h :
        Bytes([n \in 1..digest_size |-> h[((n - 1) \div 8) + 1][((n - 1) % 8) + 1]]))

(***************************************************************************)
(* Hex strings are sequences of one-character strings.                     *)
(***************************************************************************)
HexDigits == <<"0", "1", "2", "3", "4", "5", "6", "7", "8", "9",
               "a", "b", "c", "d", "e", "f">>

\* bytes.hex(): two lowercase digits for every byte
Hex(bytes) ==
  Bytes([n \in 1..(2 * Len(bytes)) |->
           IF n % 2 = 1 THEN HexDigits[(bytes[(n + 1) \div 2] \div 16) + 1]
           ELSE HexDigits[(bytes[n \div 2] % 16) + 1]])

\* the value of one hexadecimal digit
HexValue(c) == (CHOOSE k \in 1..16 : HexDigits[k] = c) - 1

\* bytearray.fromhex(text)
FromHex(text) ==
  Bytes([n \in 1..(Len(text) \div 2) |->
           16 * HexValue(text[2 * n - 1]) + HexValue(text[2 * n])])

\* int(base_digest[:8], 16), as a word
HexSeed(base_digest) ==
  Let(FromHex(SubSeq(base_digest, 1, 8)), LAMBDA b : <<b[4], b[3], b[2], b[1], 0>>)

\* hashlib.sha1(): the accumulator before any update
Sha1New == <<>>

\* sha1.update(chunk)
Sha1Update(sha1_acc, chunk) == sha1_acc \o chunk

\* sha1.hexdigest()
Sha1HexDigest(sha1_acc) == Hex(Sha1Digest(sha1_acc))

mix_bytes(a, b, salt) ==
  LET x0 == (a * 183 + salt) % 256
      y0 == (b * 137 + salt) % 256
      x1 == Xor8(y0, (x0 * 195 + salt) % 256)
      y1 == Xor8(x0, (y0 * 171 + salt) % 256)
      x2 == ((x1 * 8) % 256) + (x1 \div 32)
      y2 == (y1 \div 8) + ((y1 * 32) % 256)
  IN  <<Xor8(x2, And8(salt, 51)), Xor8(y2, And8(salt \div 16, 51))>>

\* the number of values of the sequence that the digest uses: sequence[:8]
sequence_used == 8

\* one iteration of "for i, val in enumerate(sequence[:8])"
MixPairStep(mixed_hash_in, k, val) ==
  IF k * 2 + 1 < Len(mixed_hash_in)
  THEN Let(mix_bytes(mixed_hash_in[k * 2 + 1], mixed_hash_in[k * 2 + 2], val[1]),
           LAMBDA m : [mixed_hash_in EXCEPT ![k * 2 + 1] = m[1], ![k * 2 + 2] = m[2]])
  ELSE mixed_hash_in

finalize_digest_size == 32

\* a faulty variant: the digest size of SHA-1 and no repair of the length
finalize_state_unpadded(state) == Blake2bDigest(state \o <<1>>, 20)

finalize_state(state) ==
  Let(Blake2bDigest(state \o <<1>>, finalize_digest_size),
      LAMBDA h :
        IF Len(h) < 32
        THEN Bytes([n \in 1..32 |-> h[((n - 1) % Len(h)) + 1]])
        ELSE IF Len(h) > 32 THEN SubSeq(h, 1, 32)
        ELSE h)

block_size == 64

\* (len(data) + 63) // 64
TotalBlocks(bytes) == (Len(bytes) + block_size - 1) \div block_size

\* data[i:i + block_size] with i = block_size * p
BlockAt(bytes, p) ==
  SubSeq(bytes, block_size * p + 1, Min(Len(bytes), block_size * (p + 1)))

\* the mixer that the acceleration setting selects
MixBlock(blk, pos, jit) ==
  IF jit THEN enhanced_block_mixing_jit(blk, pos) ELSE enhanced_block_mixing(blk, pos)

\* everything after the block loop (lines 914-960): from the accumulator to
\* the hexadecimal digest.  Only sequence[:8] is read, and the sequence only
\* grows by appending, so its first 8 values are those of the first 8
\* iterations of the first loop.
DigestTail(sha1_acc, jit) ==
  Let(Sha1HexDigest(sha1_acc),
      LAMBDA base :
        Let(SequencePrefix(HexSeed(base), jit, sequence_used),
            LAMBDA seq :
              Hex(finalize_state(
                    FoldRange(LAMBDA m, k : MixPairStep(m, k, seq[k + 1]),
                              FromHex(base), 0, Min(sequence_used, Len(seq)))))))

\* enhanced_sha1_signature(data) under the acceleration setting jit
enhanced_sha1_signature(bytes, jit) ==
  DigestTail(FoldRange(LAMBDA acc, p : Sha1Update(acc, MixBlock(BlockAt(bytes, p), p, jit)),
                       Sha1New, 0, TotalBlocks(bytes)),
             jit)

(***************************************************************************)
(* The state: one call of a function of the module at a time.              *)
(***************************************************************************)
VARIABLES
  use_jit,       \* _NUMBA_ENABLED and _USE_JIT, fixed when the module is imported
  fn,            \* the function that runs
  data,          \* its argument: the bytes, the file's content, the seed, the byte
  pc,            \* where the call stands
  position,      \* the block counter
  offset,        \* the loop index i of the block loop, or the file's read offset
  block,         \* the block of this iteration, or the read that is being filled
  short_reads,   \* history: a raw read of the file returned less than asked
  sha1,          \* the SHA-1 accumulator
  mixed_block,   \* the last mixed block
  base_digest,   \* sha1.hexdigest()
  cz,            \* the locals of the Collatz generator
  mixed_hash,    \* the bytearray the pair loop mixes
  pair,          \* the index i of the pair loop
  final_hash,    \* what finalize_state returned
  result,        \* the hexadecimal digest returned
  bal,           \* the locals of balance_byte
  log,           \* history: the digest calls that returned, in order
  max_workers,   \* the worker count of the parallel variant
  batch_blocks,  \* the batch size of the parallel file variant
  work_batches,  \* the batches of positions handed to the executor
  futures,       \* per batch: what its future holds
  mixed_blocks,  \* the parallel variant's list of mixed blocks
  fed,           \* history: the positions whose mixed block updated SHA-1
  reordered,     \* history: a batch completed before an earlier batch
  store,         \* the object a method is called on: what it has stored
  ret            \* what a function outside the digest family returned

objv == <<store, ret>>
callv == <<use_jit, fn, data, objv>>
loopv == <<position, offset, block, short_reads, sha1, mixed_block>>
tailv == <<base_digest, cz, mixed_hash, pair, final_hash, result>>
parv == <<max_workers, batch_blocks, work_batches, futures, mixed_blocks, fed, reordered>>
vars == <<callv, pc, loopv, tailv, bal, log, parv>>

(***************************************************************************)
(* The inputs that are enumerated.                                         *)
(***************************************************************************)
\* the longest enumerated input has MaxBlocks blocks
MaxBlocks == 3

\* a short raw read of the file returns ShortRead bytes
ShortRead == 37

\* n bytes without structure
Pattern(n) == Bytes([k \in 1..n |-> (k * k * 37 + k * 11 + 101) % 256])

InputLengths == {0, 1, block_size} \cup {block_size * k + 2 : k \in 2..(MaxBlocks - 1)}

Inputs == {Pattern(n) : n \in InputLengths}

\* the last seed is 2^32 + 1: an int that does not fit 32 bits
Seeds ==
  {Word(0), Word(1), Word(2), Word(27), <<255, 255, 255, 255, 0>>, <<1, 0, 0, 0, 1>>}

FinalizeInputs == {Pattern(n) : n \in {0, 20, 127, 128, 200}}

DigestFns == {"enhanced_sha1_signature", "enhanced_sha1_signature_file"}

\* the strategy of the running call: only the digest functions look at the flag
JitPath == use_jit /\ fn \in DigestFns

NoBal == [b |-> 0, attempts |-> 0, ret |-> 0]

\* the state in which function f starts on argument x, with max_workers (or
\* parallel_workers) w and batch_blocks bb where f takes them
StartWith(f, x, jit, w, bb) ==
  /\ use_jit = jit
  /\ fn = f
  /\ data = x
  /\ pc = CASE f = "enhanced_sha1_signature" -> "blocks"
            [] f = "enhanced_sha1_signature_file" -> "read"
            [] f = "strengthened_collatz_sequence" -> "first_loop"
            [] f = "balance_byte" -> "balance_test"
            [] f = "enhanced_block_mixing" -> "mixer"
            [] f \in {"build_merkle_root", "register_ip", "collatz_sequence",
                       "compute_leaf_hash_from_block",
                       "collatz_sha1_signature_of_data", "add_hash",
                       "mix_state", "sbox_scramble", "AnalyticsEngine",
                       "SHA1E3AdvancedSecurity"} -> "call"
            [] f = "enhanced_sha1_signature_extreme_parallel" -> "batches"
            [] f = "enhanced_sha1_signature_file_fast" -> "workers"
            [] OTHER -> "finalize"
  /\ position = 0
  /\ offset = 0
  /\ block = <<>>
  /\ short_reads = FALSE
  /\ sha1 = Sha1New
  /\ mixed_block = <<>>
  /\ base_digest = <<>>
  /\ cz = CollatzStart(IF f = "strengthened_collatz_sequence" THEN x ELSE Word(0))
  /\ mixed_hash = <<>>
  /\ pair = 0
  /\ final_hash = <<>>
  /\ result = <<>>
  /\ bal = NoBal
  /\ log = <<>>
  /\ max_workers = w
  /\ batch_blocks = bb
  /\ work_batches = <<>>
  /\ futures = <<>>
  /\ mixed_blocks = <<>>
  /\ fed = <<>>
  /\ reordered = FALSE
  /\ store = <<>>
  /\ ret = <<>>

Start(f, x, jit) == StartWith(f, x, jit, 0, 0)

Init ==
  \/ \E f \in DigestFns, x \in Inputs, jit \in BOOLEAN : Start(f, x, jit)
  \/ \E x \in Seeds : Start("strengthened_collatz_sequence", x, FALSE)
  \/ \E b \in 0..255 : Start("balance_byte", <<b>>, FALSE)
  \/ \E x \in FinalizeInputs : Start("finalize_state", x, FALSE)

(***************************************************************************)
(* enhanced_sha1_signature: the block loop (lines 900-911)                 *)
(***************************************************************************)
BlockStep ==
  /\ fn = "enhanced_sha1_signature"
  /\ pc = "blocks"
  /\ offset < Len(data)
  /\ block' = SubSeq(data, offset + 1, Min(Len(data), offset + block_size))
  /\ mixed_block' = MixBlock(block', position, use_jit)
  /\ sha1' = Sha1Update(sha1, mixed_block')
  /\ position' = position + 1
  /\ offset' = offset + block_size
  /\ UNCHANGED <<callv, pc, short_reads, tailv, bal, log, parv>>

BlocksExit ==
  /\ fn = "enhanced_sha1_signature"
  /\ pc = "blocks"
  /\ offset >= Len(data)
  /\ pc' = "hexdigest"
  /\ UNCHANGED <<callv, loopv, tailv, bal, log, parv>>

(***************************************************************************)
(* enhanced_sha1_signature_file: the read loop (lines 1342-1354).  The     *)
(* file is opened with open(path, 'rb'): read(64) of the buffered reader   *)
(* asks the raw file again until it holds 64 bytes or the file has ended.  *)
(***************************************************************************)
\* a faulty variant: an unbuffered file, read(64) is a single raw read
ReadCompleteUnbuffered(buf, remaining) == Len(buf) > 0 \/ remaining = 0

ReadComplete(buf, remaining) == Len(buf) = block_size \/ remaining = 0

\* one raw read: it returns at most what is asked, and at least one byte
FileRawRead ==
  /\ fn = "enhanced_sha1_signature_file"
  /\ pc = "read"
  /\ ~ReadComplete(block, Len(data) - offset)
  /\ \E k \in {ShortRead, block_size} :
       LET asked == Min(block_size - Len(block), Len(data) - offset)
           n == Min(k, asked)
       IN  /\ block' = block \o SubSeq(data, offset + 1, offset + n)
           /\ offset' = offset + n
           /\ short_reads' = (short_reads \/ n < asked)
  /\ UNCHANGED <<callv, pc, position, sha1, mixed_block, tailv, bal, log, parv>>

\* a faulty variant: the body of the read loop without "position += 1"
FileBlockKeepsPosition ==
  /\ fn = "enhanced_sha1_signature_file"
  /\ pc = "read"
  /\ Len(block) = block_size \/ (offset = Len(data) /\ block # <<>>)
  /\ mixed_block' = MixBlock(block, position, use_jit)
  /\ sha1' = Sha1Update(sha1, mixed_block')
  /\ block' = <<>>
  /\ UNCHANGED <<callv, pc, position, offset, short_reads, tailv, bal, log, parv>>

\* read(64) returned a block: the body of the loop
FileBlock ==
  /\ fn = "enhanced_sha1_signature_file"
  /\ pc = "read"
  /\ ReadComplete(block, Len(data) - offset)
  /\ block # <<>>
  /\ mixed_block' = MixBlock(block, position, use_jit)
  /\ sha1' = Sha1Update(sha1, mixed_block')
  /\ position' = position + 1
  /\ block' = <<>>
  /\ UNCHANGED <<callv, pc, offset, short_reads, tailv, bal, log, parv>>

\* read(64) returned b"": break
FileEOF ==
  /\ fn = "enhanced_sha1_signature_file"
  /\ pc = "read"
  /\ ReadComplete(block, Len(data) - offset)
  /\ block = <<>>
  /\ pc' = "hexdigest"
  /\ UNCHANGED <<callv, loopv, tailv, bal, log, parv>>

(***************************************************************************)
(* The tail of the digest functions (lines 914-960 and 1356-1390)          *)
(***************************************************************************)
BaseDigest ==
  /\ pc = "hexdigest"
  /\ base_digest' = Sha1HexDigest(sha1)
  /\ cz' = CollatzStart(HexSeed(base_digest'))
  /\ pc' = "first_loop"
  /\ UNCHANGED <<callv, loopv, mixed_hash, pair, final_hash, result, bal, log, parv>>

FirstLoopIter ==
  /\ pc = "first_loop"
  /\ FirstLoopGuard(cz)
  /\ cz' = IF JitPath THEN FirstLoopStepJit(cz) ELSE FirstLoopStep(cz)
  /\ UNCHANGED <<callv, pc, loopv, base_digest, mixed_hash, pair, final_hash, result,
                 bal, log, parv>>

\* the generator returns: a direct call is over, a digest goes on with the
\* pair loop over bytearray.fromhex(base_digest)
CollatzReturn ==
  /\ pc' = IF fn \in DigestFns THEN "mix" ELSE "done"
  /\ mixed_hash' = IF fn \in DigestFns THEN FromHex(base_digest) ELSE mixed_hash
  /\ pair' = 0

\* the first loop is left: the accelerated generator returns, the plain one
\* sets sequence_length = 0 and goes to its second loop
FirstLoopExit ==
  /\ pc = "first_loop"
  /\ ~FirstLoopGuard(cz)
  /\ IF JitPath
     THEN CollatzReturn /\ cz' = cz
     ELSE /\ cz' = SecondLoopEnter(cz)
          /\ pc' = "second_loop"
          /\ UNCHANGED <<mixed_hash, pair>>
  /\ UNCHANGED <<callv, loopv, base_digest, final_hash, result, bal, log, parv>>

SecondLoopIter ==
  /\ pc = "second_loop"
  /\ SecondLoopGuard(cz)
  /\ cz' = SecondLoopStep(cz)
  /\ UNCHANGED <<callv, pc, loopv, base_digest, mixed_hash, pair, final_hash, result,
                 bal, log, parv>>

SecondLoopExit ==
  /\ pc = "second_loop"
  /\ ~SecondLoopGuard(cz)
  /\ CollatzReturn
  /\ UNCHANGED <<callv, loopv, base_digest, cz, final_hash, result, bal, log, parv>>

\* a faulty variant: the pair loop enumerates the whole sequence
PairCountAll == Len(cz.sequence)

\* the values the pair loop enumerates: sequence[:8]
PairCount == Min(sequence_used, Len(cz.sequence))

MixPair ==
  /\ pc = "mix"
  /\ pair < PairCount
  /\ mixed_hash' = MixPairStep(mixed_hash, pair, cz.sequence[pair + 1])
  /\ pair' = pair + 1
  /\ UNCHANGED <<callv, pc, loopv, base_digest, cz, final_hash, result, bal, log, parv>>

\* finalize_state, called by the digest or directly, and the conversion to hex
Finalize ==
  /\ \/ pc = "mix" /\ pair >= PairCount
     \/ pc = "finalize"
  /\ final_hash' = finalize_state(IF pc = "mix" THEN mixed_hash ELSE data)
  /\ result' = IF pc = "mix" THEN Hex(final_hash') ELSE result
  /\ pc' = "done"
  /\ UNCHANGED <<callv, loopv, base_digest, cz, mixed_hash, pair, bal, log, parv>>

(***************************************************************************)
(* balance_byte, one loop iteration at a time (lines 813-854)              *)
(***************************************************************************)
BalanceTest ==
  /\ pc = "balance_test"
  /\ LET b == data[1] % 256
     IN  IF popcount(b) <= 5 /\ popcount(b) >= 3
         THEN /\ bal' = [b |-> b, attempts |-> 0, ret |-> b]
              /\ pc' = "done"
         ELSE /\ bal' = [b |-> b, attempts |-> 0, ret |-> 0]
              /\ pc' = "clear_loop"
  /\ UNCHANGED <<callv, loopv, tailv, log, parv>>

BalanceClearIter ==
  /\ pc = "clear_loop"
  /\ BalanceClearRuns(bal.b, bal.attempts)
  /\ LET n == BalanceClearBody(bal.b, bal.attempts)
     IN  bal' = [bal EXCEPT !.b = n[1], !.attempts = n[2]]
  /\ UNCHANGED <<callv, pc, loopv, tailv, log, parv>>

BalanceClearExit ==
  /\ pc = "clear_loop"
  /\ ~BalanceClearRuns(bal.b, bal.attempts)
  /\ pc' = "set_loop"
  /\ UNCHANGED <<callv, loopv, tailv, bal, log, parv>>

BalanceSetIter ==
  /\ pc = "set_loop"
  /\ BalanceSetRuns(bal.b, bal.attempts)
  /\ LET n == BalanceSetBody(bal.b, bal.attempts)
     IN  bal' = [bal EXCEPT !.b = n[1], !.attempts = n[2]]
  /\ UNCHANGED <<callv, pc, loopv, tailv, log, parv>>

BalanceSetExit ==
  /\ pc = "set_loop"
  /\ ~BalanceSetRuns(bal.b, bal.attempts)
  /\ bal' = [bal EXCEPT !.ret = BalanceResult(data[1] % 256, bal.b)]
  /\ pc' = "done"
  /\ UNCHANGED <<callv, loopv, tailv, log, parv>>

Next ==
  \/ BlockStep
  \/ BlocksExit
  \/ FileRawRead
  \/ FileBlock
  \/ FileEOF
  \/ BaseDigest
  \/ FirstLoopIter
  \/ FirstLoopExit
  \/ SecondLoopIter
  \/ SecondLoopExit
  \/ MixPair
  \/ Finalize
  \/ BalanceTest
  \/ BalanceClearIter
  \/ BalanceClearExit
  \/ BalanceSetIter
  \/ BalanceSetExit

Spec == Init /\ [][Next]_vars

(***************************************************************************)
(* Properties of one call (specification Spec)                             *)
(***************************************************************************)
\* C1: the streaming digest of a file equals the in-memory digest of its
\* content under the same acceleration setting: whenever a digest call has
\* returned, over the file or over the bytes, its result is the value of
\* enhanced_sha1_signature on the content.
StreamingEqualsInMemory ==
  (fn \in DigestFns /\ pc = "done") => result = enhanced_sha1_signature(data, use_jit)

\* a file of several blocks whose length is no multiple of 64 was digested
StreamingWitness ==
  /\ fn = "enhanced_sha1_signature_file"
  /\ pc = "done"
  /\ Len(data) > block_size
  /\ Len(data) % block_size # 0
  /\ result = enhanced_sha1_signature(data, use_jit)

LowerHexChars == {"0", "1", "2", "3", "4", "5", "6", "7", "8", "9",
                  "a", "b", "c", "d", "e", "f"}

\* C2: every digest is 64 lowercase hexadecimal characters, and finalize_state
\* returns 32 bytes for every buffer, whether the digest or a direct caller
\* hands it over.
DigestLengthFixed ==
  /\ (fn \in DigestFns /\ pc = "done") =>
        /\ Len(result) = 64
        /\ \A n \in 1..Len(result) : result[n] \in LowerHexChars
  /\ (fn \in DigestFns \cup {"finalize_state"} /\ pc = "done") => Len(final_hash) = 32

\* the digest of the empty input and a direct call on a 200-byte buffer
DigestLengthWitness ==
  /\ pc = "done"
  /\ \/ fn = "enhanced_sha1_signature" /\ data = <<>> /\ Len(result) = 64
     \/ fn = "finalize_state" /\ Len(data) = 200 /\ Len(final_hash) = 32

\* C4: strengthened_collatz_sequence returns at most 100 entries and the
\* body of its second loop never runs.
CollatzAtMostFirstLoopCap ==
  fn = "strengthened_collatz_sequence" =>
     /\ Len(cz.sequence) <= FirstLoopCap
     /\ ~(pc = "second_loop" /\ SecondLoopGuard(cz))

\* C6: the accelerated and the plain strategy agree: on every mixed block,
\* on the first 100 values of the generator, and on the digest.
JitSameAsPlain ==
  fn = "enhanced_sha1_signature" =>
     /\ (pc = "blocks" /\ position > 0) =>
           mixed_block = MixBlock(block, position - 1, ~use_jit)
     /\ pc = "mix" =>
           SubSeq(cz.sequence, 1, Min(FirstLoopCap, Len(cz.sequence)))
             = SequencePrefix(HexSeed(base_digest), ~use_jit, FirstLoopCap)
     /\ pc = "done" => result = enhanced_sha1_signature(data, ~use_jit)

\* C9: the streaming digest does not depend on how the raw reads split the
\* file: every block that read(64) hands to the loop is the 64-byte slice at
\* the block counter (the last one may be shorter), and the digest of a file
\* that was served with short reads is the digest of its content.
ReadsGroupedIntoBlocks ==
  fn = "enhanced_sha1_signature_file" =>
     /\ (pc = "read" /\ ReadComplete(block, Len(data) - offset)) =>
           block = BlockAt(data, position)
     /\ (pc = "done" /\ short_reads) => result = enhanced_sha1_signature(data, use_jit)

\* a 130-byte file served with 37-byte reads was digested
ShortReadsWitness ==
  /\ fn = "enhanced_sha1_signature_file"
  /\ pc = "done"
  /\ short_reads
  /\ Len(data) = 130
  /\ result = enhanced_sha1_signature(data, use_jit)

\* the steps after the first loop has been left
StepsAfterFirstLoop == SecondLoopCap + sequence_used + 3

\* an upper bound on the steps the running call has left
StepsLeft ==
  CASE pc = "done" -> 0
    [] pc = "finalize" -> 1
    [] pc = "mix" -> (PairCount - pair) + 1
    [] pc = "second_loop" -> (SecondLoopCap - cz.sequence_length) + sequence_used + 2
    [] pc = "first_loop" -> (FirstLoopCap - cz.sequence_length) + StepsAfterFirstLoop
    [] pc = "hexdigest" -> FirstLoopCap + StepsAfterFirstLoop + 1
    [] pc = "blocks" -> (IF offset < Len(data)
                         THEN ((Len(data) - offset + block_size - 1) \div block_size)
                         ELSE 0)
                        + FirstLoopCap + StepsAfterFirstLoop + 2
    [] pc = "read" -> 2 * (Len(data) - offset) + (IF block # <<>> THEN 1 ELSE 0)
                      + FirstLoopCap + StepsAfterFirstLoop + 2
    [] pc = "balance_test" -> balance_max_attempts + 3
    [] pc = "clear_loop" -> (balance_max_attempts - bal.attempts) + 2
    [] pc = "set_loop" -> (balance_max_attempts - bal.attempts) + 1
    [] OTHER -> 0

\* every loop has an iteration action under its guard and an exit action
\* under the negation of the guard, so a call that stands at some loop or
\* statement of the function it runs can take a step
CanStep ==
  \/ pc = "blocks" /\ fn = "enhanced_sha1_signature"
  \/ pc = "read" /\ fn = "enhanced_sha1_signature_file"
  \/ pc \in {"hexdigest", "mix"} /\ fn \in DigestFns
  \/ pc \in {"first_loop", "second_loop"}
  \/ pc = "finalize" /\ fn = "finalize_state"
  \/ pc \in {"balance_test", "clear_loop", "set_loop"} /\ fn = "balance_byte"

\* C10: every call terminates: a call that has not returned can take a step,
\* and every step (an iteration or the exit of the block loop, of the two
\* loops of balance_byte, of the two loops of the generator, of the pair
\* loop) lowers a bound on the steps left that never goes below 0.
EveryCallTerminates ==
  /\ [](pc # "done" => CanStep)
  /\ [][StepsLeft' < StepsLeft /\ StepsLeft' >= 0]_vars

\* a digest returned after the second loop of the generator ran to its cap
TerminationWitness ==
  /\ fn = "enhanced_sha1_signature"
  /\ pc = "done"
  /\ cz.sequence_length = SecondLoopCap
  /\ Len(result) = 64

(***************************************************************************)
(* Successive calls of enhanced_sha1_signature in one process              *)
(* (specification SpecCalls)                                               *)
(***************************************************************************)
\* the calls of one behaviour
MaxCalls == 3

CallInputs == {Pattern(n) : n \in {0, 1, block_size + 2}}

\* a faulty variant: the block counter survives from the previous call
InitialPositionStale(previous) == previous

\* "position = 0" (line 890): the counter is a local of the call
InitialPosition(previous) == 0

InitCalls == \E x \in CallInputs, jit \in BOOLEAN : Start("enhanced_sha1_signature", x, jit)

\* the next call begins: its locals are fresh
CallStart ==
  /\ fn = "enhanced_sha1_signature"
  /\ pc = "done"
  /\ Len(log) < MaxCalls
  /\ \E x \in CallInputs : data' = x
  /\ sha1' = Sha1New
  /\ position' = InitialPosition(position)
  /\ offset' = 0
  /\ block' = <<>>
  /\ mixed_block' = <<>>
  /\ pc' = "blocks"
  /\ UNCHANGED <<use_jit, fn, objv, short_reads, tailv, bal, log, parv>>

\* lines 914-960 in one step: the call returns its digest
CallReturn ==
  /\ fn = "enhanced_sha1_signature"
  /\ pc = "hexdigest"
  /\ result' = DigestTail(sha1, use_jit)
  /\ log' = Append(log, [data |-> data, result |-> result'])
  /\ pc' = "done"
  /\ UNCHANGED <<callv, loopv, base_digest, cz, mixed_hash, pair, final_hash, bal, parv>>

NextCalls ==
  \/ CallStart
  \/ BlockStep
  \/ BlocksExit
  \/ CallReturn

SpecCalls == InitCalls /\ [][NextCalls]_vars

\* C3: the digest is deterministic and history-free: two calls on the same
\* bytes returned the same string, whatever was digested before or in between.
DigestHistoryFree ==
  \A i, j \in 1..Len(log) : log[i].data = log[j].data => log[i].result = log[j].result

\* the same two-block input was digested before and after another input
HistoryFreeWitness ==
  /\ Len(log) = 3
  /\ Len(log[1].data) > block_size
  /\ log[3].data = log[1].data
  /\ log[2].data # log[1].data
  /\ log[3].result = log[1].result
  /\ log[2].result # log[1].result

(***************************************************************************)
(* Two calls of enhanced_block_mixing on one block (specification          *)
(* SpecMixer)                                                              *)
(***************************************************************************)
\* the positions that are enumerated: 0..MaxPosition
MaxPosition == 8

MixerBlocks == {Pattern(block_size), Bytes([k \in 1..block_size |-> 0])}

InitMixer == \E x \in MixerBlocks : Start("enhanced_block_mixing", x, FALSE)

MixerFirstCall ==
  /\ fn = "enhanced_block_mixing"
  /\ pc = "mixer"
  /\ \E p \in 0..MaxPosition : position' = p
  /\ mixed_block' = enhanced_block_mixing(data, position')
  /\ log' = <<[position |-> position', mixed |-> mixed_block']>>
  /\ pc' = "mixer_again"
  /\ UNCHANGED <<callv, offset, block, short_reads, sha1, tailv, bal, parv>>

MixerSecondCall ==
  /\ fn = "enhanced_block_mixing"
  /\ pc = "mixer_again"
  /\ \E q \in 0..MaxPosition : position' = q
  /\ mixed_block' = enhanced_block_mixing(data, position')
  /\ pc' = "done"
  /\ UNCHANGED <<callv, offset, block, short_reads, sha1, tailv, bal, log, parv>>

NextMixer ==
  \/ MixerFirstCall
  \/ MixerSecondCall

SpecMixer == InitMixer /\ [][NextMixer]_vars

\* C5: position sensitivity: the same 64-byte block mixed at two different
\* positions gives two different mixed blocks.
PositionSensitive ==
  (fn = "enhanced_block_mixing" /\ pc = "done" /\ log[1].position # position)
     => log[1].mixed # mixed_block

(***************************************************************************)
(* enhanced_sha1_signature_extreme_parallel (specification SpecParallel)   *)
(***************************************************************************)
\* max_workers is drawn from 1..MaxWorkers
MaxWorkers == 2

\* the calls that are enumerated make at most MaxBatches batches
MaxBatches == 4

\* at most MaxFailures futures of one call raise
MaxFailures == 1

\* batch_size = max(1, total_blocks // (max_workers * 4)) (line 995)
ParallelBatchSize(total, workers) == Max(1, total \div (workers * 4))

\* current_batch.append(item), and the batch is closed when it is full
BatchAppend(st, item, size) ==
  IF Len(st.current) + 1 >= size
  THEN [batches |-> Append(st.batches, Append(st.current, item)), current |-> <<>>]
  ELSE [batches |-> st.batches, current |-> Append(st.current, item)]

\* the batches of (position, block) of lines 1008-1023, and of batch_iter
Batches(bytes, size) ==
  Let(FoldRange(LAMBDA st, p : BatchAppend(st, [position |-> p, block |-> BlockAt(bytes, p)],
                                           size),
                [batches |-> <<>>, current |-> <<>>], 0, TotalBlocks(bytes)),
      LAMBDA st : IF st.current # <<>> THEN Append(st.batches, st.current) ELSE st.batches)

\* the worker of the thread pool: the pairs (position, mixed_block) of a batch
process_block_batch(batch, jit) ==
  Bytes([k \in 1..Len(batch) |->
           [position |-> batch[k].position,
            mixed |-> MixBlock(batch[k].block, batch[k].position, jit)]])

\* an entry of mixed_blocks that is None
NoneBlock == [position |-> -1, mixed |-> <<>>]

\* a faulty variant: the results are stored in the order in which they arrive
StoreResultByArrival(mb, entry) ==
  [mb EXCEPT ![Cardinality({i \in 1..Len(mb) : mb[i] # NoneBlock}) + 1] = entry]

\* "mixed_blocks[pos] = mixed_block"; the position is kept as history
StoreResult(mb, entry) == [mb EXCEPT ![entry.position + 1] = entry]

StoreBatch(mb, results) ==
  FoldRange(LAMBDA m, k : StoreResult(m, results[k + 1]), mb, 0, Len(results))

ParallelInputs ==
  {Pattern(n) : n \in {0, block_size + 2, 2 * block_size + 2, 7 * block_size + 2}}

InitParallel ==
  \E x \in ParallelInputs, w \in 1..MaxWorkers, jit \in BOOLEAN :
     /\ TotalBlocks(x) <= MaxBatches * ParallelBatchSize(TotalBlocks(x), w)
     /\ StartWith("enhanced_sha1_signature_extreme_parallel", x, jit, w, 0)

\* lines 995-1026: the batches, and mixed_blocks = [None] * total_blocks
ParMakeBatches ==
  /\ fn = "enhanced_sha1_signature_extreme_parallel"
  /\ pc = "batches"
  /\ work_batches' = Batches(data, ParallelBatchSize(TotalBlocks(data), max_workers))
  /\ futures' = [b \in 1..Len(work_batches') |-> "pending"]
  /\ mixed_blocks' = [i \in 1..TotalBlocks(data) |-> NoneBlock]
  /\ pc' = "collect"
  /\ UNCHANGED <<callv, loopv, tailv, bal, log, max_workers, batch_blocks, fed, reordered>>

\* one iteration of the as_completed loop: some future completes, with the
\* results of process_block_batch or with an exception, and then the handler
\* computes process_block_batch on the same batch
ParCollect ==
  /\ fn = "enhanced_sha1_signature_extreme_parallel"
  /\ pc = "collect"
  /\ \E b \in 1..Len(futures), raised \in BOOLEAN :
       /\ futures[b] = "pending"
       /\ raised => Cardinality({c \in 1..Len(futures) : futures[c] = "recomputed"})
                       < MaxFailures
       /\ futures' = [futures EXCEPT ![b] = IF raised THEN "recomputed" ELSE "stored"]
       /\ mixed_blocks' = StoreBatch(mixed_blocks,
                                     process_block_batch(work_batches[b], use_jit))
       /\ reordered' = (reordered \/ \E c \in 1..(b - 1) : futures[c] = "pending")
  /\ UNCHANGED <<callv, pc, loopv, tailv, bal, log, max_workers, batch_blocks,
                 work_batches, fed>>

ParCollectExit ==
  /\ fn = "enhanced_sha1_signature_extreme_parallel"
  /\ pc = "collect"
  /\ \A b \in 1..Len(futures) : futures[b] # "pending"
  /\ pc' = "feed"
  /\ offset' = 0
  /\ UNCHANGED <<callv, position, block, short_reads, sha1, mixed_block, tailv, bal, log,
                 parv>>

\* lines 1064-1067: "for mixed_block in mixed_blocks: if mixed_block is not None"
ParFeed ==
  /\ fn = "enhanced_sha1_signature_extreme_parallel"
  /\ pc = "feed"
  /\ offset < Len(mixed_blocks)
  /\ IF mixed_blocks[offset + 1] # NoneBlock
     THEN /\ sha1' = Sha1Update(sha1, mixed_blocks[offset + 1].mixed)
          /\ fed' = Append(fed, mixed_blocks[offset + 1].position)
     ELSE UNCHANGED <<sha1, fed>>
  /\ offset' = offset + 1
  /\ UNCHANGED <<callv, pc, position, block, short_reads, mixed_block, tailv, bal, log,
                 max_workers, batch_blocks, work_batches, futures, mixed_blocks, reordered>>

ParFeedExit ==
  /\ fn = "enhanced_sha1_signature_extreme_parallel"
  /\ pc = "feed"
  /\ offset >= Len(mixed_blocks)
  /\ pc' = "tail"
  /\ UNCHANGED <<callv, loopv, tailv, bal, log, parv>>

\* lines 1072-1110 in one step
ParTail ==
  /\ fn = "enhanced_sha1_signature_extreme_parallel"
  /\ pc = "tail"
  /\ result' = DigestTail(sha1, use_jit)
  /\ pc' = "done"
  /\ UNCHANGED <<callv, loopv, base_digest, cz, mixed_hash, pair, final_hash, bal, log,
                 parv>>

NextParallel ==
  \/ ParMakeBatches
  \/ ParCollect
  \/ ParCollectExit
  \/ ParFeed
  \/ ParFeedExit
  \/ ParTail

SpecParallel == InitParallel /\ [][NextParallel]_vars

\* the positions 0, 1, ..., n - 1
Upto(n) == Bytes([i \in 1..n |-> i - 1])

\* C7: whatever the worker count, the batch size and the order in which the
\* batches complete, with or without a batch that raised and was recomputed,
\* SHA-1 is updated with the mixed block of every position once and in
\* increasing order, and the digest is that of enhanced_sha1_signature.
FedInPositionOrder ==
  fn = "enhanced_sha1_signature_extreme_parallel" =>
     /\ pc = "feed" => fed = Upto(offset)
     /\ pc \in {"tail", "done"} => fed = Upto(TotalBlocks(data))
     /\ pc = "done" => result = enhanced_sha1_signature(data, use_jit)

\* batches of two blocks completed out of order, one of them was recomputed
\* after its future raised, and the call returned
ParallelWitness ==
  /\ fn = "enhanced_sha1_signature_extreme_parallel"
  /\ pc = "done"
  /\ reordered
  /\ Len(work_batches) >= 3
  /\ Len(work_batches[1]) = 2
  /\ \E b \in 1..Len(futures) : futures[b] = "recomputed"
  /\ fed = Upto(TotalBlocks(data))
  /\ result = enhanced_sha1_signature(data, use_jit)

(***************************************************************************)
(* enhanced_sha1_signature_file_fast (specification SpecFileFast).  In     *)
(* this specification max_workers holds parallel_workers, futures the      *)
(* tasks of ex.map and mixed_blocks, per task, the list the task returned. *)
(***************************************************************************)
\* batch_blocks is drawn from 1..MaxBatchBlocks
MaxBatchBlocks == 2

\* the worker process: the pairs (position, mixed) of a batch, always with
\* the plain mixer
mix_batch_for_positions(batch) ==
  Bytes([k \in 1..Len(batch) |->
           [position |-> batch[k].position,
            mixed |-> enhanced_block_mixing(batch[k].block, batch[k].position)]])

\* a faulty variant: results are taken as the tasks finish
IsNextResultAsCompleted(b, tasks) == TRUE

\* ex.map yields the results in the order of submission: the result of task
\* b comes when those of all earlier tasks have been taken
IsNextResult(b, tasks) == \A c \in 1..(b - 1) : tasks[c] = "consumed"

FileFastInputs == {Pattern(n) : n \in {0, block_size + 2, 3 * block_size + 2}}

InitFileFast ==
  \E x \in FileFastInputs, w \in 1..MaxWorkers, bb \in 1..MaxBatchBlocks, jit \in BOOLEAN :
     StartWith("enhanced_sha1_signature_file_fast", x, jit, w, bb)

\* workers == 1: the serial path, one block of block_iter at a time
FastSerialBlock ==
  /\ fn = "enhanced_sha1_signature_file_fast"
  /\ pc = "workers"
  /\ max_workers = 1
  /\ position < TotalBlocks(data)
  /\ block' = BlockAt(data, position)
  /\ mixed_block' = enhanced_block_mixing(block', position)
  /\ sha1' = Sha1Update(sha1, mixed_block')
  /\ fed' = Append(fed, position)
  /\ position' = position + 1
  /\ UNCHANGED <<callv, pc, offset, short_reads, tailv, bal, log, max_workers,
                 batch_blocks, work_batches, futures, mixed_blocks, reordered>>

FastSerialExit ==
  /\ fn = "enhanced_sha1_signature_file_fast"
  /\ pc = "workers"
  /\ max_workers = 1
  /\ position >= TotalBlocks(data)
  /\ pc' = "tail"
  /\ UNCHANGED <<callv, loopv, tailv, bal, log, parv>>

\* workers > 1: ex.map draws every batch of batch_iter and submits a task
FastSubmit ==
  /\ fn = "enhanced_sha1_signature_file_fast"
  /\ pc = "workers"
  /\ max_workers # 1
  /\ work_batches' = Batches(data, batch_blocks)
  /\ futures' = [b \in 1..Len(work_batches') |-> "pending"]
  /\ mixed_blocks' = [b \in 1..Len(work_batches') |-> <<>>]
  /\ pc' = "map"
  /\ UNCHANGED <<callv, loopv, tailv, bal, log, max_workers, batch_blocks, fed, reordered>>

\* a worker process finishes a task
FastTaskFinish ==
  /\ fn = "enhanced_sha1_signature_file_fast"
  /\ pc = "map"
  /\ \E b \in 1..Len(futures) :
       /\ futures[b] = "pending"
       /\ futures' = [futures EXCEPT ![b] = "finished"]
       /\ mixed_blocks' = [mixed_blocks EXCEPT ![b] = mix_batch_for_positions(work_batches[b])]
       /\ reordered' = (reordered \/ \E c \in 1..(b - 1) : futures[c] = "pending")
  /\ UNCHANGED <<callv, pc, loopv, tailv, bal, log, max_workers, batch_blocks,
                 work_batches, fed>>

\* one iteration of "for batch in ex.map(...)": every mixed block of the
\* batch updates SHA-1
FastConsume ==
  /\ fn = "enhanced_sha1_signature_file_fast"
  /\ pc = "map"
  /\ \E b \in 1..Len(futures) :
       /\ futures[b] = "finished"
       /\ IsNextResult(b, futures)
       /\ futures' = [futures EXCEPT ![b] = "consumed"]
       /\ sha1' = FoldRange(LAMBDA acc, k : Sha1Update(acc, mixed_blocks[b][k + 1].mixed),
                            sha1, 0, Len(mixed_blocks[b]))
       /\ fed' = fed \o [k \in 1..Len(mixed_blocks[b]) |-> mixed_blocks[b][k].position]
  /\ UNCHANGED <<callv, pc, position, offset, block, short_reads, mixed_block, tailv, bal,
                 log, max_workers, batch_blocks, work_batches, mixed_blocks, reordered>>

FastMapExit ==
  /\ fn = "enhanced_sha1_signature_file_fast"
  /\ pc = "map"
  /\ \A b \in 1..Len(futures) : futures[b] = "consumed"
  /\ pc' = "tail"
  /\ UNCHANGED <<callv, loopv, tailv, bal, log, parv>>

\* lines 1485-1501 in one step: always the plain generator
FastTail ==
  /\ fn = "enhanced_sha1_signature_file_fast"
  /\ pc = "tail"
  /\ result' = DigestTail(sha1, FALSE)
  /\ pc' = "done"
  /\ UNCHANGED <<callv, loopv, base_digest, cz, mixed_hash, pair, final_hash, bal, log,
                 parv>>

NextFileFast ==
  \/ FastSerialBlock
  \/ FastSerialExit
  \/ FastSubmit
  \/ FastTaskFinish
  \/ FastConsume
  \/ FastMapExit
  \/ FastTail

SpecFileFast == InitFileFast /\ [][NextFileFast]_vars

\* C8: enhanced_sha1_signature_file_fast preserves the output: whatever
\* parallel_workers and batch_blocks are and in whatever order the tasks
\* finish, the mixed blocks update SHA-1 in file order, and the digest is the
\* one of the serial path (workers = 1), the plain digest of the content.
FileFastEqualsSerial ==
  fn = "enhanced_sha1_signature_file_fast" =>
     /\ fed = Upto(Len(fed))
     /\ pc \in {"tail", "done"} => fed = Upto(TotalBlocks(data))
     /\ pc = "done" => result = enhanced_sha1_signature(data, FALSE)

\* tasks of two blocks finished out of order in a call with several workers,
\* and the call returned
FileFastWitness ==
  /\ fn = "enhanced_sha1_signature_file_fast"
  /\ pc = "done"
  /\ max_workers > 1
  /\ batch_blocks = 2
  /\ Len(work_batches) = 2
  /\ reordered
  /\ result = enhanced_sha1_signature(data, FALSE)

(***************************************************************************)
(* enhanced_sha1_signature_file when reads can fail (specification         *)
(* SpecFileErrors).  The function has no try statement: an OSError of      *)
(* f.read leaves the with block and the function.                          *)
(***************************************************************************)
InitFileErrors ==
  \E x \in Inputs, jit \in BOOLEAN : Start("enhanced_sha1_signature_file", x, jit)

\* a faulty variant: the failed read is taken for the end of the file
FileReadErrorAsEOF ==
  /\ fn = "enhanced_sha1_signature_file"
  /\ pc = "read"
  /\ Len(block) < block_size
  /\ block' = <<>>
  /\ pc' = "hexdigest"
  /\ UNCHANGED <<callv, position, offset, short_reads, sha1, mixed_block, tailv, bal, log,
                 parv>>

\* a raw read of the read(64) in progress raises: the exception propagates
FileReadError ==
  /\ fn = "enhanced_sha1_signature_file"
  /\ pc = "read"
  /\ Len(block) < block_size
  /\ pc' = "raised"
  /\ UNCHANGED <<callv, loopv, tailv, bal, log, parv>>

\* lines 1366-1390 in one step
FileReturn ==
  /\ fn = "enhanced_sha1_signature_file"
  /\ pc = "hexdigest"
  /\ result' = DigestTail(sha1, use_jit)
  /\ pc' = "done"
  /\ UNCHANGED <<callv, loopv, base_digest, cz, mixed_hash, pair, final_hash, bal, log,
                 parv>>

NextFileErrors ==
  \/ FileRawRead
  \/ FileReadError
  \/ FileBlock
  \/ FileEOF
  \/ FileReturn

SpecFileErrors == InitFileErrors /\ [][NextFileErrors]_vars

\* C11: no partial or degraded output: a call whose read failed has raised
\* and returned nothing, it takes no further step (no retry), and a digest is
\* returned only when every block of the file was read and fed, and it is the
\* digest of the whole content.
NoPartialDigest ==
  /\ [](pc = "raised" => result = <<>>)
  /\ [](result # <<>> => /\ pc = "done"
                         /\ offset = Len(data)
                         /\ position = TotalBlocks(data)
                         /\ result = enhanced_sha1_signature(data, use_jit))
  /\ [][pc = "raised" => pc' = "raised"]_vars

\* a read failed after the first block of a longer file had been fed
ReadErrorWitness ==
  /\ fn = "enhanced_sha1_signature_file"
  /\ pc = "raised"
  /\ position = 1
  /\ offset < Len(data)
  /\ result = <<>>

(***************************************************************************)
(* enhanced_block_mixing on blocks of every kind of length, followed by    *)
(* the call on the next block (specification SpecMixerOutputs)             *)
(***************************************************************************)
\* lengths 0, below 16, no multiple of 8, and multiples of 8 up to a block
MixerLengths == {0, 1, 5, 15, 16, 17, 24, 40, block_size}

\* n bytes of value v
Repeated(n, v) == Bytes([k \in 1..n |-> v])

MixerInputs ==
  {Pattern(n) : n \in MixerLengths}
    \cup {Repeated(n, v) : n \in {16, block_size}, v \in {0, 255}}

\* the blocks that follow in the second call
MixerNextBlocks == {Pattern(block_size), Repeated(16, 255)}

InitMixerOutputs == \E x \in MixerInputs : Start("enhanced_block_mixing", x, FALSE)

\* the call on the next block, at the next position
MixerNextBlock ==
  /\ fn = "enhanced_block_mixing"
  /\ pc = "mixer_again"
  /\ \E y \in MixerNextBlocks : data' = y
  /\ position' = position + 1
  /\ mixed_block' = enhanced_block_mixing(data', position')
  /\ pc' = "done"
  /\ UNCHANGED <<use_jit, fn, objv, offset, block, short_reads, sha1, tailv, bal, log, parv>>

NextMixerOutputs ==
  \/ MixerFirstCall
  \/ MixerNextBlock

SpecMixerOutputs == InitMixerOutputs /\ [][NextMixerOutputs]_vars

\* a call of the mixer has returned in this state
MixerReturned == fn = "enhanced_block_mixing" /\ pc \in {"mixer_again", "done"}

\* C12: enhanced_block_mixing returns max(16, len(block)) bytes for every
\* block, whatever its length, and every position.
MixedBlockLength ==
  MixerReturned => Len(mixed_block) = Max(16, Len(data))

\* a 5-byte block gave 16 bytes, or a 17-byte block gave 17 bytes
MixedLengthWitness ==
  /\ MixerReturned
  /\ Len(data) \in {5, 17}
  /\ Len(mixed_block) = Max(16, Len(data))
  /\ position > 0

\* C13: every byte of every output of enhanced_block_mixing has between 3
\* and 5 bits set.
MixedBytesBalanced ==
  MixerReturned =>
     \A n \in 1..Len(mixed_block) :
        popcount(mixed_block[n]) >= 3 /\ popcount(mixed_block[n]) <= 5

\* an all-zero block of 64 bytes was mixed into balanced bytes
BalancedWitness ==
  /\ MixerReturned
  /\ data = Repeated(block_size, 0)
  /\ \A n \in 1..Len(mixed_block) : popcount(mixed_block[n]) \in 3..5

\* the longest run of identical bits of a byte string, most significant bit
\* of every byte first
LongestRun(bytes) ==
  FoldRange(LAMBDA st, i :
              Let(BitOf(At(bytes, i \div 8), 7 - (i % 8)),
                  LAMBDA bit :
                    IF bit = st.bit
                    THEN [bit |-> bit, run |-> st.run + 1,
                          longest |-> Max(st.longest, st.run + 1)]
                    ELSE [bit |-> bit, run |-> 1, longest |-> Max(st.longest, 1)]),
            [bit |-> -1, run |-> 0, longest |-> 0], 0, Len(bytes) * 8).longest

\* C14: no run of 15 or more identical bits, neither inside one output of
\* enhanced_block_mixing nor in the concatenation of the outputs of two
\* successive calls.
NoLongRuns ==
  MixerReturned =>
     /\ LongestRun(mixed_block) <= 14
     /\ pc = "done" => LongestRun(log[1].mixed \o mixed_block) <= 14

\* the outputs of two successive calls were concatenated, the first one that
\* of the 24-byte block at position 4
NoLongRunsWitness ==
  /\ MixerReturned
  /\ pc = "done"
  /\ Len(log[1].mixed) = 24
  /\ log[1].position = 4
  /\ LongestRun(log[1].mixed \o mixed_block) <= 14

(***************************************************************************)
(* merkle.py: build_merkle_root, build_proof, verify_proof (specification  *)
(* SpecMerkle).  data holds the list of leaves, position the index.        *)
(***************************************************************************)
\* hash_utils.compute_sha1
compute_sha1(bytes) == Sha1Digest(bytes)

\* [compute_sha1(leaf) for leaf in leaf_hashes]
LeafLevel(leaf_hashes) == Bytes([k \in 1..Len(leaf_hashes) |-> compute_sha1(leaf_hashes[k])])

\* the parent of the pair that starts at index i: an unpaired last hash is
\* combined with itself
MerkleParent(level, i) ==
  compute_sha1(level[i + 1] \o (IF i + 1 < Len(level) THEN level[i + 2] ELSE level[i + 1]))

\* one pass of the for loop over the pairs
MerkleNextLevel(level) ==
  Bytes([k \in 1..((Len(level) + 1) \div 2) |-> MerkleParent(level, 2 * (k - 1))])

RECURSIVE MerkleReduce(_)
MerkleReduce(level) ==
  IF Len(level) > 1 THEN MerkleReduce(MerkleNextLevel(level)) ELSE level[1]

build_merkle_root(leaf_hashes) ==
  IF leaf_hashes = <<>> THEN compute_sha1(<<>>) ELSE MerkleReduce(LeafLevel(leaf_hashes))

\* what one level adds to the proof for the target index
ProofStep(level, target_index) ==
  IF target_index % 2 = 0
  THEN IF target_index + 1 < Len(level)
       THEN <<[is_left |-> FALSE, hash |-> level[target_index + 2]]>>
       ELSE <<>>
  ELSE <<[is_left |-> TRUE, hash |-> level[target_index]]>>

RECURSIVE ProofFrom(_, _)
ProofFrom(level, target_index) ==
  IF Len(level) > 1
  THEN ProofStep(level, target_index)
         \o ProofFrom(MerkleNextLevel(level), target_index \div 2)
  ELSE <<>>

build_proof(leaf_hashes, index) ==
  IF leaf_hashes = <<>> \/ index >= Len(leaf_hashes)
  THEN <<>>
  ELSE ProofFrom(LeafLevel(leaf_hashes), index)

verify_proof(leaf, proof, root) ==
  FoldRange(LAMBDA current, k :
              IF proof[k + 1].is_left
              THEN compute_sha1(proof[k + 1].hash \o current)
              ELSE compute_sha1(current \o proof[k + 1].hash),
            compute_sha1(leaf), 0, Len(proof)) = root

\* the lists of leaves have 1..MaxLeaves leaves
MaxLeaves == 6

LeafLists == {Bytes([k \in 1..n |-> Pattern(k + c)]) : n \in 1..MaxLeaves, c \in {0, 30}}

InitMerkle == \E x \in LeafLists : Start("build_merkle_root", x, FALSE)

MerkleRoot ==
  /\ fn = "build_merkle_root"
  /\ pc = "call"
  /\ ret' = [root |-> build_merkle_root(data), proof |-> <<>>, verified |-> FALSE]
  /\ fn' = "build_proof"
  /\ UNCHANGED <<use_jit, data, store, pc, loopv, tailv, bal, log, parv>>

MerkleProof ==
  /\ fn = "build_proof"
  /\ pc = "call"
  /\ \E i \in 0..(Len(data) - 1) : position' = i
  /\ ret' = [ret EXCEPT !.proof = build_proof(data, position')]
  /\ fn' = "verify_proof"
  /\ UNCHANGED <<use_jit, data, store, pc, offset, block, short_reads, sha1, mixed_block,
                 tailv, bal, log, parv>>

MerkleVerify ==
  /\ fn = "verify_proof"
  /\ pc = "call"
  /\ ret' = [ret EXCEPT !.verified = verify_proof(data[position + 1], ret.proof, ret.root)]
  /\ pc' = "done"
  /\ UNCHANGED <<use_jit, fn, data, store, loopv, tailv, bal, log, parv>>

NextMerkle ==
  \/ MerkleRoot
  \/ MerkleProof
  \/ MerkleVerify

SpecMerkle == InitMerkle /\ [][NextMerkle]_vars

\* C15: Merkle proof round trip: for every non-empty list of leaves and every
\* index in range, the proof built for the leaf verifies against the root.
MerkleRoundTrip ==
  (fn = "verify_proof" /\ pc = "done") => ret.verified

(***************************************************************************)
(* hashlib.sha256 (FIPS 180-4), on the words of hashlib.sha1 above; the    *)
(* padding of the message is the one of SHA-1.                             *)
(***************************************************************************)
SHA256_H0 ==
  <<<<103, 230, 9, 106, 0>>, <<133, 174, 103, 187, 0>>, <<114, 243, 110, 60, 0>>, <<58, 245, 79, 165, 0>>,
    <<127, 82, 14, 81, 0>>, <<140, 104, 5, 155, 0>>, <<171, 217, 131, 31, 0>>, <<25, 205, 224, 91, 0>>>>

SHA256_K ==
  <<<<152, 47, 138, 66, 0>>, <<145, 68, 55, 113, 0>>, <<207, 251, 192, 181, 0>>, <<165, 219, 181, 233, 0>>,
    <<91, 194, 86, 57, 0>>, <<241, 17, 241, 89, 0>>, <<164, 130, 63, 146, 0>>, <<213, 94, 28, 171, 0>>,
    <<152, 170, 7, 216, 0>>, <<1, 91, 131, 18, 0>>, <<190, 133, 49, 36, 0>>, <<195, 125, 12, 85, 0>>,
    <<116, 93, 190, 114, 0>>, <<254, 177, 222, 128, 0>>, <<167, 6, 220, 155, 0>>, <<116, 241, 155, 193, 0>>,
    <<193, 105, 155, 228, 0>>, <<134, 71, 190, 239, 0>>, <<198, 157, 193, 15, 0>>, <<204, 161, 12, 36, 0>>,
    <<111, 44, 233, 45, 0>>, <<170, 132, 116, 74, 0>>, <<220, 169, 176, 92, 0>>, <<218, 136, 249, 118, 0>>,
    <<82, 81, 62, 152, 0>>, <<109, 198, 49, 168, 0>>, <<200, 39, 3, 176, 0>>, <<199, 127, 89, 191, 0>>,
    <<243, 11, 224, 198, 0>>, <<71, 145, 167, 213, 0>>, <<81, 99, 202, 6, 0>>, <<103, 41, 41, 20, 0>>,
    <<133, 10, 183, 39, 0>>, <<56, 33, 27, 46, 0>>, <<252, 109, 44, 77, 0>>, <<19, 13, 56, 83, 0>>,
    <<84, 115, 10, 101, 0>>, <<187, 10, 106, 118, 0>>, <<46, 201, 194, 129, 0>>, <<133, 44, 114, 146, 0>>,
    <<161, 232, 191, 162, 0>>, <<75, 102, 26, 168, 0>>, <<112, 139, 75, 194, 0>>, <<163, 81, 108, 199, 0>>,
    <<25, 232, 146, 209, 0>>, <<36, 6, 153, 214, 0>>, <<133, 53, 14, 244, 0>>, <<112, 160, 106, 16, 0>>,
    <<22, 193, 164, 25, 0>>, <<8, 108, 55, 30, 0>>, <<76, 119, 72, 39, 0>>, <<181, 188, 176, 52, 0>>,
    <<179, 12, 28, 57, 0>>, <<74, 170, 216, 78, 0>>, <<79, 202, 156, 91, 0>>, <<243, 111, 46, 104, 0>>,
    <<238, 130, 143, 116, 0>>, <<111, 99, 165, 120, 0>>, <<20, 120, 200, 132, 0>>, <<8, 2, 199, 140, 0>>,
    <<250, 255, 190, 144, 0>>, <<235, 108, 80, 164, 0>>, <<247, 163, 249, 190, 0>>, <<242, 120, 113, 198, 0>>>>

Rotr32(w, n) == Rotl32(w, 32 - n)

\* the 64 words of the message schedule of the block that starts at byte off
Sha256Schedule(padded, off) ==
  LET w16 == Bytes([t \in 1..16 |->
                <<padded[off + 4 * t], padded[off + 4 * t - 1],
                  padded[off + 4 * t - 2], padded[off + 4 * t - 3], 0>>])
      s0(x) == WXor(WXor(Rotr32(x, 7), Rotr32(x, 18)), WShr(x, 3))
      s1(x) == WXor(WXor(Rotr32(x, 17), Rotr32(x, 19)), WShr(x, 10))
  IN  FoldRange(LAMBDA w, t :
                  Append(w, Add32(Add32(w[t - 15], s0(w[t - 14])),
                                  Add32(w[t - 6], s1(w[t - 1])))),
                w16, 16, 64)

Sha256Round(v, t, w) ==
  LET S1 == WXor(WXor(Rotr32(v[5], 6), Rotr32(v[5], 11)), Rotr32(v[5], 25))
      ch == WXor(WAnd(v[5], v[6]), WAnd(WNot32(v[5]), v[7]))
      S0 == WXor(WXor(Rotr32(v[1], 2), Rotr32(v[1], 13)), Rotr32(v[1], 22))
      maj == WXor(WXor(WAnd(v[1], v[2]), WAnd(v[1], v[3])), WAnd(v[2], v[3]))
  IN  Let(Add32(Add32(Add32(v[8], S1), Add32(ch, SHA256_K[t + 1])), w[t + 1]),
          LAMBDA t1 :
            <<Add32(t1, Add32(S0, maj)), v[1], v[2], v[3],
              Add32(v[4], t1), v[5], v[6], v[7]>>)

Sha256Block(h, blk, padded) ==
  Let(Sha256Schedule(padded, 64 * blk),
      LAMBDA w :
        Let(FoldRange(LAMBDA x, t : Sha256Round(x, t, w), h, 0, 64),
            LAMBDA v : Bytes([k \in 1..8 |-> Add32(h[k], v[k])])))

\* hashlib.sha256(msg).digest(): 32 bytes
Sha256Digest(msg) ==
  Let(Sha1Pad(msg),
      LAMBDA padded :
        Let(FoldRange(LAMBDA x, blk : Sha256Block(x, blk, padded), SHA256_H0,
                      0, Len(padded) \div 64),
            LAMBDA h :
              Bytes([n \in 1..32 |-> h[((n - 1) \div 4) + 1][4 - ((n - 1) % 4)]])))

(***************************************************************************)
(* collatz_converter.py: an address is a string, i.e. a sequence of        *)
(* characters; integers are words (the trajectories of the addresses       *)
(* below stay under 2^40).  An exception that leaves a function is part of *)
(* what the function returns: raised names its class, message its text.    *)
(***************************************************************************)
MAX_SEQUENCE_LENGTH == 100000

DecimalDigits == <<"0", "1", "2", "3", "4", "5", "6", "7", "8", "9">>

IsDecimalDigit(c) == \E k \in 1..10 : DecimalDigits[k] = c

DecimalValue(c) == (CHOOSE k \in 1..10 : DecimalDigits[k] = c) - 1

\* text.split('.')
SplitDots(text) ==
  FoldRange(LAMBDA parts, k :
              IF text[k + 1] = "." THEN Append(parts, <<>>)
              ELSE [parts EXCEPT ![Len(parts)] = Append(@, text[k + 1])],
            <<<<>>>>, 0, Len(text))

OctetNumber(octet) ==
  FoldRange(LAMBDA v, k : 10 * v + DecimalValue(octet[k + 1]), 0, 0, Len(octet))

\* ipaddress.IPv4Address._parse_octet accepts the octet
OctetValid(octet) ==
  /\ Len(octet) \in 1..3
  /\ \A k \in 1..Len(octet) : IsDecimalDigit(octet[k])
  /\ (Len(octet) > 1 => octet[1] # "0")
  /\ OctetNumber(octet) <= 255

\* ipaddress.IPv4Address(text) accepts the string
ValidIPv4(text) ==
  Let(SplitDots(text),
      LAMBDA parts : Len(parts) = 4 /\ \A k \in 1..4 : OctetValid(parts[k]))

ip_to_integer(ip_address) ==
  IF ValidIPv4(ip_address)
  THEN Let(SplitDots(ip_address),
           LAMBDA parts :
             [raised |-> "", message |-> <<>>,
              value |-> <<OctetNumber(parts[4]), OctetNumber(parts[3]),
                          OctetNumber(parts[2]), OctetNumber(parts[1]), 0>>])
  ELSE [raised |-> "ValueError",
        message |-> <<"Invalid IPv4 address: ">> \o ip_address,
        value |-> <<>>]

WZero == <<0, 0, 0, 0, 0>>

\* a < b for two words
WLess(a, b) ==
  \E k \in 1..5 : a[k] < b[k] /\ \A j \in (k + 1)..5 : a[j] = b[j]

WMaxOf(words) ==
  FoldRange(LAMBDA m, k : IF WLess(m, words[k + 1]) THEN words[k + 1] ELSE m,
            words[1], 1, Len(words))

WMinOf(words) ==
  FoldRange(LAMBDA m, k : IF WLess(words[k + 1], m) THEN words[k + 1] ELSE m,
            words[1], 1, Len(words))

\* n // 2 if n is even, 3 * n + 1 otherwise
CollatzRule(n) ==
  IF n[1] % 2 = 0 THEN WShr(n, 1) ELSE WAdd(WAdd(WAdd(n, n), n), WOne)

RECURSIVE CollatzWhile(_, _, _)
\* the while loop of generate_collatz_sequence, lines 105-112
CollatzWhile(n, sequence, max_length) ==
  IF n # WOne /\ Len(sequence) < max_length
  THEN CollatzWhile(CollatzRule(n), Append(sequence, CollatzRule(n)), max_length)
  ELSE sequence

generate_collatz_sequence(n, max_length) ==
  IF n = WZero
  THEN [raised |-> "ValueError", message |-> <<"Starting number must be positive">>,
        sequence |-> <<>>, steps_to_one |-> 0, max_value |-> WZero]
  ELSE Let(CollatzWhile(n, <<n>>, max_length),
           LAMBDA sequence :
             [raised |-> "", message |-> <<>>, sequence |-> sequence,
              steps_to_one |-> Len(sequence) - 1, max_value |-> WMaxOf(sequence)])

\* num.to_bytes(8, byteorder='big') of every number, concatenated
sequence_to_bytes(sequence) ==
  Bytes([n \in 1..(8 * Len(sequence)) |->
           IF (n - 1) % 8 < 3 THEN 0
           ELSE sequence[((n - 1) \div 8) + 1][8 - ((n - 1) % 8)]])

NoCollatzResult(raised, message) ==
  [raised |-> raised, message |-> message, ip_integer |-> <<>>, sequence_length |-> 0,
   steps_to_one |-> 0, max_value |-> WZero, trajectory_bytes |-> <<>>]

convert_ip_to_collatz(ip_address, max_sequence_length) ==
  Let(ip_to_integer(ip_address),
      LAMBDA ip_integer :
        IF ip_integer.raised # ""
        THEN NoCollatzResult(ip_integer.raised, ip_integer.message)
        ELSE Let(generate_collatz_sequence(ip_integer.value, max_sequence_length),
                 LAMBDA g :
                   IF g.raised # "" THEN NoCollatzResult(g.raised, g.message)
                   ELSE [raised |-> "", message |-> <<>>,
                         ip_integer |-> ip_integer.value,
                         sequence_length |-> Len(g.sequence),
                         steps_to_one |-> g.steps_to_one,
                         max_value |-> g.max_value,
                         trajectory_bytes |-> sequence_to_bytes(g.sequence)]))

(***************************************************************************)
(* sha1_enhanced_v3.py: enhanced_sha1_with_content, the hash function the  *)
(* firewall's SHA1E3Integrator imports.                                    *)
(***************************************************************************)
window_size == 6

overlap == 2

seed_modulus == 999999

signature_max_steps == 50

\* a and b padded with zero bytes to the longer of the two, then XORed
xor_bytes(a, b) ==
  Bytes([k \in 1..Max(Len(a), Len(b)) |->
           Xor8(IF k <= Len(a) THEN a[k] ELSE 0, IF k <= Len(b) THEN b[k] ELSE 0)])

\* w.to_bytes(4, 'big') of a word below 2^32
BigEndian4(w) == <<w[4], w[3], w[2], w[1]>>

\* mixed[1:] + mixed[:1]
RotateLeft1(bytes) == IF bytes = <<>> THEN bytes ELSE Tail(bytes) \o <<Head(bytes)>>

Concat(seqs) == FoldRange(LAMBDA acc, k : acc \o seqs[k + 1], <<>>, 0, Len(seqs))

create_content_features(window, at) ==
  Let(Sha1Digest(window),
      LAMBDA d :
        <<d[1], d[2],
          CHOOSE m \in {window[k] : k \in 1..Len(window)} :
            \A k \in 1..Len(window) : window[k] <= m,
          CHOOSE m \in {window[k] : k \in 1..Len(window)} :
            \A k \in 1..Len(window) : window[k] >= m,
          FoldRange(LAMBDA s, k : (s + window[k + 1]) % 256, 0, 0, Len(window)),
          Cardinality({window[k] : k \in 1..Len(window)})>>
        \o BigEndian4(Word(at))
        \o [r \in 1..4 |-> Cardinality({k \in 1..Len(window) : window[k] % 4 = r - 1})])

mix_with_position(blk, at, prev_blocks) ==
  FoldRange(LAMBDA mixed, k : RotateLeft1(xor_bytes(mixed, prev_blocks[k + 1])),
            xor_bytes(blk, Bytes([k \in 1..(4 * ((Len(blk) \div 4) + 1)) |->
                                    BigEndian4(Word(at))[((k - 1) % 4) + 1]])),
            0, Len(prev_blocks))

\* the features of the windows that start at 0, 4, 8, ... (lines 82-94)
ContentBlocks(content) ==
  Bytes([k \in 1..((Len(content) + (window_size - overlap) - 1)
                     \div (window_size - overlap)) |->
           create_content_features(
             SubSeq(content, (window_size - overlap) * (k - 1) + 1,
                    Min(Len(content), (window_size - overlap) * (k - 1) + window_size)),
             (window_size - overlap) * (k - 1))])

\* content_blocks[start_idx:end_idx] of region i, or one block of four zero bytes
RegionBlocks(content_blocks, i) ==
  IF ((i + 1) * Len(content_blocks)) \div 5 > (i * Len(content_blocks)) \div 5
  THEN SubSeq(content_blocks, ((i * Len(content_blocks)) \div 5) + 1,
              ((i + 1) * Len(content_blocks)) \div 5)
  ELSE <<<<0, 0, 0, 0>>>>

\* the inner loop over the blocks of a region (lines 111-118)
MixRegion(i, sha1_block, region_blocks, mixed_list) ==
  FoldRange(LAMBDA mixed, j :
              RotateLeft1(xor_bytes(mixed,
                                    mix_with_position(region_blocks[j + 1],
                                                      i * 1000 + j, mixed_list))),
            sha1_block, 0, Len(region_blocks))

\* the five mixed blocks (lines 97-120)
ContentMixedBlocks(sha1_hash, content_blocks) ==
  FoldRange(LAMBDA mixed_list, i :
              Append(mixed_list,
                     MixRegion(i, SubSeq(sha1_hash, 4 * i + 1, 4 * i + 4),
                               RegionBlocks(content_blocks, i), mixed_list)),
            <<>>, 0, 5)

\* ((int.from_bytes(blk, 'big') + i) % 999999) + 1
SignatureSeed(blk, i) ==
  ((FoldRange(LAMBDA r, k : (r * 256 + blk[k + 1]) % seed_modulus, 0, 0, Len(blk)) + i)
     % seed_modulus) + 1

\* collatz_sequence of sha1_enhanced_v3.py: at most max_steps steps
collatz_sequence_bounded(n, max_steps) == CollatzWhile(n, <<n>>, max_steps + 1)

\* struct.pack('>IIIII', length, max_val, min_val, steps_to_one, i)
BlockSignature(blk, i) ==
  Let(collatz_sequence_bounded(Word(SignatureSeed(blk, i)), signature_max_steps),
      LAMBDA sequence :
        BigEndian4(Word(Len(sequence)))
        \o BigEndian4(IF WMaxOf(sequence)[5] > 0 THEN <<255, 255, 255, 255, 0>>
                      ELSE WMaxOf(sequence))
        \o BigEndian4(IF WMinOf(sequence) = <<255, 255, 255, 255, 0>> THEN WZero
                      ELSE WMinOf(sequence))
        \o BigEndian4(Word(Len(sequence) - 1))
        \o BigEndian4(Word(i)))

enhanced_sha1_with_content(content) ==
  Let(ContentMixedBlocks(Sha1Digest(content), ContentBlocks(content)),
      LAMBDA mixed_list :
        Hex(Sha256Digest(Sha256Digest(
              Concat([i \in 1..5 |-> BlockSignature(mixed_list[i], i - 1)])
              \o Concat(mixed_list)))))

(***************************************************************************)
(* sha1e3_integrator.py and firewall_engine.py.  None is the empty         *)
(* sequence; a string is the sequence of its characters.                   *)
(***************************************************************************)
HASH_TYPE == "SHA1-E3 (Numba JIT)"

compute_hash(bytes) == enhanced_sha1_with_content(bytes)

hash_collatz_sequence(trajectory_bytes) ==
  Let(compute_hash(trajectory_bytes),
      LAMBDA hash_value :
        [input_hash |-> Hex(SubSeq(trajectory_bytes, 1, Min(16, Len(trajectory_bytes))))
                        \o <<".", ".", ".">>,
         hash_value |-> hash_value,
         hash_length |-> Len(hash_value),
         hash_type |-> HASH_TYPE])

AsciiUpper == <<"A", "B", "C", "D", "E", "F", "G", "H", "I", "J", "K", "L", "M",
                "N", "O", "P", "Q", "R", "S", "T", "U", "V", "W", "X", "Y", "Z">>

AsciiLower == <<"a", "b", "c", "d", "e", "f", "g", "h", "i", "j", "k", "l", "m",
                "n", "o", "p", "q", "r", "s", "t", "u", "v", "w", "x", "y", "z">>

\* str.lower() and str.upper() of a string of ASCII characters
lower(text) ==
  Bytes([k \in 1..Len(text) |->
           IF \E c \in 1..26 : AsciiUpper[c] = text[k]
           THEN AsciiLower[CHOOSE c \in 1..26 : AsciiUpper[c] = text[k]]
           ELSE text[k]])

upper(text) ==
  Bytes([k \in 1..Len(text) |->
           IF \E c \in 1..26 : AsciiLower[c] = text[k]
           THEN AsciiUpper[CHOOSE c \in 1..26 : AsciiLower[c] = text[k]]
           ELSE text[k]])

\* the comparison of line 173 without the two lower() calls
hash_match_exact(computed, expected_hash) == computed = expected_hash

\* line 173
hash_match(computed, expected_hash) == lower(computed) = lower(expected_hash)

register_ip(ip_address) ==
  Let(convert_ip_to_collatz(ip_address, MAX_SEQUENCE_LENGTH),
      LAMBDA collatz_result :
        IF collatz_result.raised = "ValueError"
        THEN [ip_address |-> ip_address, success |-> FALSE, collatz_hash |-> <<>>,
              sequence_length |-> 0, error_message |-> collatz_result.message]
        ELSE [ip_address |-> ip_address, success |-> TRUE,
              collatz_hash |-> hash_collatz_sequence(collatz_result.trajectory_bytes).hash_value,
              sequence_length |-> collatz_result.sequence_length,
              error_message |-> <<>>])

verify_ip(ip_address, expected_hash) ==
  Let(convert_ip_to_collatz(ip_address, MAX_SEQUENCE_LENGTH),
      LAMBDA collatz_result :
        IF collatz_result.raised = "ValueError"
        THEN [ip_address |-> ip_address, status |-> "invalid_ip", hash_value |-> <<>>,
              sequence_length |-> 0, error_message |-> collatz_result.message,
              details |-> <<>>]
        ELSE Let(hash_collatz_sequence(collatz_result.trajectory_bytes),
                 LAMBDA hash_result :
                   [ip_address |-> ip_address,
                    status |-> IF hash_match(hash_result.hash_value, expected_hash)
                               THEN "allowed" ELSE "blocked",
                    hash_value |-> hash_result.hash_value,
                    sequence_length |-> collatz_result.sequence_length,
                    error_message |-> <<>>,
                    details |-> <<hash_result.hash_type, collatz_result.steps_to_one,
                                  collatz_result.max_value>>]))

(***************************************************************************)
(* FirewallEngine: an address is registered, then verified against an      *)
(* expected hash.  ret holds the RegistrationResult, the expected hash     *)
(* that was passed and the VerificationResult.                             *)
(***************************************************************************)
MaxHostNumber == 7

\* str(n) for 0 <= n < 1000
DecimalText(n) ==
  IF n < 10 THEN <<DecimalDigits[n + 1]>>
  ELSE IF n < 100 THEN <<DecimalDigits[(n \div 10) + 1], DecimalDigits[(n % 10) + 1]>>
  ELSE <<DecimalDigits[(n \div 100) + 1], DecimalDigits[((n \div 10) % 10) + 1],
         DecimalDigits[(n % 10) + 1]>>

IpAddresses ==
  {<<"0", ".", "0", ".", "0", ".">> \o DecimalText(k) : k \in 0..MaxHostNumber}
  \cup
  {<<>>,
   <<"0", ".", "0", ".", "1", ".", "0">>,
   <<"1", ".", "0", ".", "0", ".", "0">>,
   <<"9", "9", "9", ".", "9", "9", "9", ".", "9", "9", "9", ".", "9", "9", "9">>,
   <<"i", "n", "v", "a", "l", "i", "d", ".", "i", "p", ".", "a", "d", "d", "r", "e", "s", "s">>,
   <<"1", ".", "2", ".", "3">>,
   <<"0", "1", ".", "0", ".", "0", ".", "1">>,
   <<"0", ".", "0", ".", "0", ".", "2", "5", "6">>,
   <<"1", ".", "2", ".", "3", ".", "4", ".", "5">>}

wrong_hash == <<"a", "b", "c", "d", "e", "f", "1", "2", "3", "4", "5", "6", "7", "8", "9", "0">>

\* the expected hashes a caller passes: the registered hash h in three
\* spellings, and strings that differ from it in a character or in length
ExpectedHashes(h) ==
  {h, upper(h),
   Bytes([k \in 1..Len(h) |-> IF k % 2 = 1 THEN upper(h)[k] ELSE h[k]]),
   Bytes([k \in 1..Len(h) |-> IF k > 1 THEN h[k] ELSE IF h[k] = "0" THEN "1" ELSE "0"]),
   upper(Bytes([k \in 1..Len(h) |-> IF k < Len(h) THEN h[k] ELSE IF h[k] = "a" THEN "b" ELSE "a"])),
   SubSeq(h, 1, Len(h) - 1),
   h \o <<"0">>,
   <<>>,
   wrong_hash}

InitFirewall == \E x \in IpAddresses : Start("register_ip", x, FALSE)

RegisterIp ==
  /\ fn = "register_ip"
  /\ pc = "call"
  /\ ret' = [registration |-> register_ip(data), expected_hash |-> <<>>,
             verification |-> <<>>]
  /\ fn' = "verify_ip"
  /\ UNCHANGED <<use_jit, data, store, pc, loopv, tailv, bal, log, parv>>

VerifyIp ==
  /\ fn = "verify_ip"
  /\ pc = "call"
  /\ \E h \in ExpectedHashes(ret.registration.collatz_hash) :
       ret' = [ret EXCEPT !.expected_hash = h, !.verification = verify_ip(data, h)]
  /\ pc' = "done"
  /\ UNCHANGED <<use_jit, fn, data, store, loopv, tailv, bal, log, parv>>

NextFirewall ==
  \/ RegisterIp
  \/ VerifyIp

SpecFirewall == InitFirewall /\ [][NextFirewall]_vars

\* two strings that are equal up to the case of their letters
SameButCase(a, b) ==
  /\ Len(a) = Len(b)
  /\ \A k \in 1..Len(a) :
       \/ a[k] = b[k]
       \/ \E c \in 1..26 : {a[k], b[k]} = {AsciiUpper[c], AsciiLower[c]}

\* C16: register-then-verify round trip: for every address that register_ip
\* accepts, verify_ip with an expected hash that equals the registered hash
\* up to the case of its letters is ALLOWED, and verify_ip with any other
\* expected hash is BLOCKED.
RegisterVerifyRoundTrip ==
  (fn = "verify_ip" /\ pc = "done" /\ ret.registration.success)
    => ret.verification.status
         = IF SameButCase(ret.expected_hash, ret.registration.collatz_hash)
           THEN "allowed" ELSE "blocked"

RoundTripWitness ==
  /\ fn = "verify_ip"
  /\ pc = "done"
  /\ ret.registration.success
  /\ ret.expected_hash # ret.registration.collatz_hash
  /\ ret.verification.status = "allowed"

\* C17: register_ip and verify_ip report an error (success = False with an
\* error message, status INVALID_IP) exactly when the address is not a
\* valid IPv4 address, and succeed for every valid one, 0.0.0.0 included.
ErrorsOnlyForInvalidAddresses ==
  /\ fn = "verify_ip"
       => /\ ret.registration.success <=> ValidIPv4(data)
          /\ ret.registration.success <=> ret.registration.error_message = <<>>
  /\ (fn = "verify_ip" /\ pc = "done")
       => /\ ret.verification.status = "invalid_ip" <=> ~ValidIPv4(data)
          /\ ValidIPv4(data) => ret.verification.status \in {"allowed", "blocked"}

(***************************************************************************)
(* collatz_utils.py and api.py.  The while loop of collatz_sequence is     *)
(* taken one iteration per step; ret holds its locals, the seeds that      *)
(* split_and_shuffle still has to run and the lengths it has collected.    *)
(* Integers are TLC's (the values of the seeds 0..255 stay below 13121).   *)
(***************************************************************************)
MaxIterations == 130

num_blocks == 4

\* current > 2**60, line 36
TooLarge(current) ==
  \/ current \div 1073741824 > 1073741824
  \/ current \div 1073741824 = 1073741824 /\ current % 1073741824 > 0

\* lines 31-40: the value the iteration appends
CollatzUtilsRule(current) ==
  IF current % 2 = 0 THEN current \div 2 ELSE 3 * current + 1

\* collatz_sequence(n) as a value, for an n whose loop ends within
\* MaxIterations iterations: the loop of lines 27-44, which no longer
\* changes the sequence once current is 1
collatz_sequence(n) ==
  FoldRange(LAMBDA sequence, k :
              IF sequence[Len(sequence)] = 1 THEN sequence
              ELSE Append(sequence, CollatzUtilsRule(sequence[Len(sequence)])),
            <<n>>, 0, MaxIterations)

\* struct.pack('>Q', num) of every number, concatenated
serialize_seq(seq) ==
  Bytes([n \in 1..(8 * Len(seq)) |->
           IF (n - 1) % 8 < 4 THEN 0
           ELSE BigEndian4(Word(seq[((n - 1) \div 8) + 1]))[((n - 1) % 8) - 3]])

\* line 121
LeafSeed(blk) == IF blk # <<>> THEN blk[1] ELSE 0

compute_leaf_hash_from_block(blk) ==
  compute_sha1(blk \o serialize_seq(collatz_sequence(LeafSeed(blk))))

\* line 90: the first num_blocks slices of block_size bytes
SplitBlocks(hash_bytes, n) ==
  Bytes([k \in 1..n |->
           SubSeq(hash_bytes, (Len(hash_bytes) \div n) * (k - 1) + 1,
                  (Len(hash_bytes) \div n) * k)])

\* line 94
BlockSeeds(blocks) == Bytes([k \in 1..Len(blocks) |-> LeafSeed(blocks[k])])

\* a < b for two byte strings
BytesLess(a, b) ==
  \/ \E k \in 1..Min(Len(a), Len(b)) :
       a[k] < b[k] /\ \A j \in 1..(k - 1) : a[j] = b[j]
  \/ Len(a) < Len(b) /\ \A j \in 1..Len(a) : a[j] = b[j]

\* (length, block) tuples: p < q
TupleLess(p, q) == p[1] < q[1] \/ (p[1] = q[1] /\ BytesLess(p[2], q[2]))

\* sorted(zip(sequences, blocks), reverse=True), line 105: the blocks of the
\* tuples in descending order
SortedBlocks(sequences, blocks) ==
  Let(FoldRange(LAMBDA sorted, k :
                  Let(Cardinality({j \in 1..Len(sorted) :
                                     ~TupleLess(sorted[j], <<sequences[k + 1], blocks[k + 1]>>)}),
                      LAMBDA before :
                        SubSeq(sorted, 1, before)
                        \o <<<<sequences[k + 1], blocks[k + 1]>>>>
                        \o SubSeq(sorted, before + 1, Len(sorted))),
                <<>>, 0, Len(blocks)),
      LAMBDA sorted : Bytes([k \in 1..Len(sorted) |-> sorted[k][2]]))

final_signature_from_root(root) == Hex(root)

\* api.py lines 36-42, from the shuffled blocks on
SignatureFromBlocks(blocks) ==
  final_signature_from_root(
    build_merkle_root(Bytes([k \in 1..Len(blocks) |->
                               compute_leaf_hash_from_block(blocks[k])])))

UtilFns == {"collatz_sequence", "compute_leaf_hash_from_block",
            "collatz_sha1_signature_of_data"}

\* the seeds whose loops a call runs, in order
CallSeeds(f, x) ==
  IF f = "collatz_sequence" THEN <<x[1]>>
  ELSE IF f = "compute_leaf_hash_from_block" THEN <<LeafSeed(x)>>
  ELSE BlockSeeds(SplitBlocks(compute_sha1(x), num_blocks))

\* lines 21-23 for the first of the seeds
LoopStart(seeds, lengths) ==
  [seeds |-> Tail(seeds), lengths |-> lengths, sequence |-> <<Head(seeds)>>,
   iterations |-> 0, current |-> Head(seeds)]

MaxSeed == 255

LeafBlocks == {<<>>, <<0>>, <<1>>, <<100, 97, 116, 97, 49>>, <<0, 120, 120>>}

SignatureInputs == {<<>>, <<97>>, <<110>>, <<100, 97, 116, 97, 49>>}

InitCollatzUtils ==
  \/ \E n \in 0..MaxSeed : Start("collatz_sequence", <<n>>, FALSE)
  \/ \E x \in LeafBlocks : Start("compute_leaf_hash_from_block", x, FALSE)
  \/ \E x \in SignatureInputs : Start("collatz_sha1_signature_of_data", x, FALSE)

SeqEnter ==
  /\ fn \in UtilFns
  /\ pc = "call"
  /\ ret' = LoopStart(CallSeeds(fn, data), <<>>)
  /\ pc' = "loop"
  /\ UNCHANGED <<use_jit, fn, data, store, loopv, tailv, bal, log, parv>>

\* one iteration of the while loop, lines 27-44
SeqIterate ==
  /\ fn \in UtilFns
  /\ pc = "loop"
  /\ ret.current # 1
  /\ ret.iterations < MaxIterations
  /\ IF ret.current % 2 = 1 /\ TooLarge(ret.current)
     THEN pc' = "raised" /\ ret' = ret
     ELSE /\ ret' = [ret EXCEPT !.current = CollatzUtilsRule(ret.current),
                                !.sequence = Append(@, CollatzUtilsRule(ret.current)),
                                !.iterations = @ + 1]
          /\ pc' = pc
  /\ UNCHANGED <<use_jit, fn, data, store, loopv, tailv, bal, log, parv>>

\* split_and_shuffle lines 98-101: the next seed
SeqNextSeed ==
  /\ fn \in UtilFns
  /\ pc = "loop"
  /\ ret.current = 1
  /\ ret.seeds # <<>>
  /\ ret' = LoopStart(ret.seeds, Append(ret.lengths, Len(ret.sequence)))
  /\ UNCHANGED <<use_jit, fn, data, store, pc, loopv, tailv, bal, log, parv>>

\* the last loop has ended: the rest of the call
SeqReturn ==
  /\ fn \in UtilFns
  /\ pc = "loop"
  /\ ret.current = 1
  /\ ret.seeds = <<>>
  /\ ret' = [ret EXCEPT !.lengths = Append(@, Len(ret.sequence))]
  /\ result' = IF fn = "collatz_sequence" THEN ret.sequence
               ELSE IF fn = "compute_leaf_hash_from_block"
               THEN compute_sha1(data \o serialize_seq(ret.sequence))
               ELSE SignatureFromBlocks(
                      SortedBlocks(ret'.lengths,
                                   SplitBlocks(compute_sha1(data), num_blocks)))
  /\ pc' = "done"
  /\ UNCHANGED <<use_jit, fn, data, store, loopv, base_digest, cz, mixed_hash, pair,
                 final_hash, bal, log, parv>>

NextCollatzUtils ==
  \/ SeqEnter
  \/ SeqIterate
  \/ SeqNextSeed
  \/ SeqReturn

SpecCollatzUtils == InitCollatzUtils /\ [][NextCollatzUtils]_vars

\* C18: collatz_sequence ends with last element 1 for every seed 0..255, so
\* compute_leaf_hash_from_block and collatz_sha1_signature_of_data return.
\* The value an iteration appends depends on the current value alone, so a
\* loop that ends never appends a value the sequence already holds: every
\* iteration appends a new value, and a returned sequence ends with 1.
CollatzUtilsTerminates ==
  /\ [][(pc = "loop" /\ pc' = "loop" /\ ret'.iterations = ret.iterations + 1)
          => \A k \in 1..Len(ret.sequence) : ret.sequence[k] # ret'.current]_vars
  /\ [](pc = "done" /\ fn = "collatz_sequence" => result[Len(result)] = 1)

(***************************************************************************)
(* hash_store.py: store is the HashStore object, its field hashes (a       *)
(* dictionary: the sequence of its (hash, entries) items, in order) and   *)
(* the contents of the file at store_path ("absent" while there is none).  *)
(* position counts the add_hash calls made, ret holds the last call.       *)
(***************************************************************************)
MaxAdds == 3

FileHashes == {"h1", "h2"}

FilePaths == {"p1", "p2"}

\* metadata dictionaries: None or empty, and one with both keys
Metadatas == {[timestamp |-> "None", file_size |-> "None"],
              [timestamp |-> "t1", file_size |-> "10"]}

\* the files a store may find at store_path when it is constructed
StoreFiles ==
  {[exists |-> FALSE, contents |-> <<>>],
   [exists |-> TRUE, contents |-> <<>>],
   [exists |-> TRUE,
    contents |-> <<<<"h1", <<[file_path |-> "p1", timestamp |-> "None",
                              file_size |-> "None", collided |-> FALSE]>>>>>>]}

\* _load_hashes, lines 17-26
load_hashes(file) == IF ~file.exists THEN <<>> ELSE file.contents

\* file_hash in self.hashes
HasKey(hashes, file_hash) == \E k \in 1..Len(hashes) : hashes[k][1] = file_hash

KeyIndex(hashes, file_hash) == CHOOSE k \in 1..Len(hashes) : hashes[k][1] = file_hash

\* self.hashes[file_hash]
EntriesFor(hashes, file_hash) == hashes[KeyIndex(hashes, file_hash)][2]

\* {entry['file_path'] for entry in self.hashes[file_hash]}, line 51
existing_paths(hashes, file_hash) ==
  {EntriesFor(hashes, file_hash)[k].file_path :
     k \in 1..Len(EntriesFor(hashes, file_hash))}

\* a collision is reported for every hash that is stored, whatever its paths
collision_any_stored(hashes, file_hash, file_path) == HasKey(hashes, file_hash)

\* lines 48-56
collision_detected(hashes, file_hash, file_path) ==
  /\ HasKey(hashes, file_hash)
  /\ file_path \notin existing_paths(hashes, file_hash)

\* lines 58-59
WithKey(hashes, file_hash) ==
  IF HasKey(hashes, file_hash) THEN hashes ELSE Append(hashes, <<file_hash, <<>>>>)

\* add_hash on a store: the store afterwards and the value returned
add_hash(st, file_hash, file_path, metadata) ==
  Let(collision_detected(st.hashes, file_hash, file_path),
      LAMBDA collision :
        Let(WithKey(st.hashes, file_hash),
            LAMBDA hashes :
              IF file_path \in existing_paths(hashes, file_hash)
              THEN [hashes |-> hashes, file |-> st.file, returned |-> collision]
              ELSE Let([hashes EXCEPT ![KeyIndex(hashes, file_hash)][2] =
                          Append(@, [file_path |-> file_path,
                                     timestamp |-> metadata.timestamp,
                                     file_size |-> metadata.file_size,
                                     collided |-> collision])],
                       LAMBDA appended :
                         [hashes |-> appended,
                          file |-> [exists |-> TRUE, contents |-> appended],
                          returned |-> collision])))

InitHashStore == Start("add_hash", <<>>, FALSE)

\* HashStore(store_path), lines 10-15
HashStoreNew ==
  /\ fn = "add_hash"
  /\ pc = "call"
  /\ \E file \in StoreFiles : store' = [hashes |-> load_hashes(file), file |-> file]
  /\ pc' = "open"
  /\ UNCHANGED <<use_jit, fn, data, ret, loopv, tailv, bal, log, parv>>

AddHash ==
  /\ fn = "add_hash"
  /\ pc = "open"
  /\ position < MaxAdds
  /\ \E h \in FileHashes, p \in FilePaths, md \in Metadatas :
       /\ ret' = [file_hash |-> h, file_path |-> p,
                  collision |-> add_hash(store, h, p, md).returned]
       /\ store' = [hashes |-> add_hash(store, h, p, md).hashes,
                    file |-> add_hash(store, h, p, md).file]
  /\ position' = position + 1
  /\ UNCHANGED <<use_jit, fn, data, pc, offset, block, short_reads, sha1, mixed_block,
                 tailv, bal, log, parv>>

NextHashStore ==
  \/ HashStoreNew
  \/ AddHash

SpecHashStore == InitHashStore /\ [][NextHashStore]_vars

\* the entries of hash h with path p
EntriesOf(hashes, h, p) ==
  IF HasKey(hashes, h)
  THEN {k \in 1..Len(EntriesFor(hashes, h)) : EntriesFor(hashes, h)[k].file_path = p}
  ELSE {}

\* C19: add_hash(h, p) returns True exactly when h was already stored and
\* none of its entries had path p; it returns False for a new hash and for
\* (h, p) added again, and afterwards the store holds exactly one entry for
\* (h, p), the one it held before if there was one.
CollisionExactlyForNewPath ==
  [][position' = position + 1
       => /\ ret'.collision
               <=> /\ HasKey(store.hashes, ret'.file_hash)
                   /\ EntriesOf(store.hashes, ret'.file_hash, ret'.file_path) = {}
          /\ Cardinality(EntriesOf(store'.hashes, ret'.file_hash, ret'.file_path)) = 1
          /\ EntriesOf(store.hashes, ret'.file_hash, ret'.file_path) # {}
               => store'.hashes = store.hashes /\ ~ret'.collision]_vars

CollisionWitness ==
  /\ fn = "add_hash"
  /\ position > 1
  /\ ret.collision
  /\ Len(EntriesFor(store.hashes, ret.file_hash)) > 1

(***************************************************************************)
(* The cycle guard of strengthened_collatz_sequence (lines 506-508), on    *)
(* direct calls of the generator with seeds whose first loop comes back to *)
(* a state it has appended before.                                         *)
(***************************************************************************)
CycleSeeds == {Word(649267), Word(122734)}

InitCycleGuard == \E x \in CycleSeeds : Start("strengthened_collatz_sequence", x, FALSE)

NextCycleGuard ==
  \/ FirstLoopIter
  \/ FirstLoopExit
  \/ SecondLoopIter
  \/ SecondLoopExit

SpecCycleGuard == InitCycleGuard /\ [][NextCycleGuard]_vars

\* the state an iteration of the first loop leaves when the guard replaces
\* the new state s2 exactly if s2 is the state the iteration started from
GuardedOnPrevState(c, s2) ==
  FlipOutliers(IF s2 = c.state
               THEN mix_state(WXor(c.state, Word(c.sequence_length + 1)))
               ELSE s2)

\* C20: in each step of the first loop the new state is replaced by
\* mix_state(prev_state XOR step_count) exactly when it equals prev_state,
\* the state at the start of the step, and is kept in every other case, also
\* when it equals an older state of the sequence.
CycleGuardOnlyOnPrevState ==
  [][(pc = "first_loop" /\ cz'.sequence_length = cz.sequence_length + 1)
       => cz'.state = GuardedOnPrevState(cz, FirstLoopBranch(mix_state(cz.state)))]_vars

(***************************************************************************)
(* mix_state, the nested mixing function of strengthened_collatz_sequence, *)
(* called on its own (specification SpecMixState)                          *)
(***************************************************************************)
\* the values 0..MaxMixInput are enumerated
MaxMixInput == 60

\* values that the initial rotations and multiplications turn into
\* 15 zeros + 14 ones + 010, 15 ones + 14 zeros + 101, 32 ones and
\* 01010101 + 16 zeros + 8 ones
LongRunInputs ==
  {<<88, 152, 163, 128, 0>>, <<104, 204, 88, 152, 0>>, <<21, 22, 181, 210, 0>>,
   <<211, 231, 250, 137, 0>>}

MixStateInputs == {Word(k) : k \in 0..MaxMixInput} \cup LongRunInputs

\* max_run of the final verification of mix_state
MixMaxRun(val) ==
  FoldRange(LAMBDA m, i : Max(m, MixRuns(val)[i + 1][2]), 0, 0, Len(MixRuns(val)))

InitMixState == \E x \in MixStateInputs : Start("mix_state", x, FALSE)

\* one call: val after the multiplications, after the run breaking and as
\* returned
MixStateCall ==
  /\ fn = "mix_state"
  /\ pc = "call"
  /\ ret' = Let(MixBreakRuns(MixScramble(data)),
                LAMBDA b : [broken |-> b, val |-> MixByteBalance(b)])
  /\ pc' = "done"
  /\ UNCHANGED <<use_jit, fn, data, store, loopv, tailv, bal, log, parv>>

NextMixState == MixStateCall

SpecMixState == InitMixState /\ [][NextMixState]_vars

MixStateReturned == fn = "mix_state" /\ pc = "done"

\* bytes a and b differ in exactly n bit positions
BitsChanged(a, b) == popcount(Xor8(a, b))

\* C21: the byte-level balance at the end of mix_state is the correction of
\* step 5 of the generator loop: a byte with fewer than 3 or more than 5 bits
\* set has exactly one bit flipped, any other byte is left as it is.
MixBalanceFlipsOneBit ==
  MixStateReturned =>
    \A i \in 1..4 :
      BitsChanged(ret.broken[i], ret.val[i]) =
        IF popcount(ret.broken[i]) < 3 \/ popcount(ret.broken[i]) > 5 THEN 1 ELSE 0

\* C22: the value mix_state returns has no run of more than 14 identical
\* consecutive bits.
MixStateRunsAtMost14 == MixStateReturned => MixMaxRun(ret.val) <= 14

\* the run breaking left a run of 15 bits and the returned value has none
RunsWitness ==
  /\ MixStateReturned
  /\ MixMaxRun(MixScramble(data)) > 14
  /\ MixMaxRun(ret.broken) > 14
  /\ MixMaxRun(ret.val) <= 14

(***************************************************************************)
(* Properties of the generator, of balance_byte and of the pair loop       *)
(* (specification Spec)                                                    *)
(***************************************************************************)
\* 0 <= w < 2^32
IsUint32(w) == Len(w) = 5 /\ w[5] = 0 /\ \A k \in 1..4 : w[k] \in 0..255

GeneratorRuns == fn \in DigestFns \cup {"strengthened_collatz_sequence"}

\* C23: every value that strengthened_collatz_sequence appends to its
\* sequence, in the first loop and in the second, is an unsigned 32-bit
\* integer.
AppendedValuesAre32Bit ==
  [][\A i \in (Len(cz.sequence) + 1)..Len(cz'.sequence) : IsUint32(cz'.sequence[i])]_vars

\* a direct call returned a sequence that both loops appended to
BothLoopsAppended ==
  /\ fn = "strengthened_collatz_sequence"
  /\ pc = "done"
  /\ Len(cz.sequence) > FirstLoopCap
  /\ \A i \in 1..Len(cz.sequence) : IsUint32(cz.sequence[i])

\* C27: balance_byte always succeeds: the byte it returns has 3 to 5 bits
\* set, is the input when the input has 3 to 5 bits set, differs from the
\* input in at most 3 bit positions, and is never the original byte returned
\* because the loops failed.
BalanceByteSucceeds ==
  (fn = "balance_byte" /\ pc = "done") =>
    /\ popcount(bal.ret) \in 3..5
    /\ popcount(data[1]) \in 3..5 => bal.ret = data[1]
    /\ BitsChanged(data[1], bal.ret) <= 3
    /\ popcount(bal.b) \in 3..5
    /\ bal.ret = bal.b
    /\ ~BalanceGivesUp(data[1])

\* a byte with all bits set came back with three bits cleared
BalanceSucceedsWitness ==
  /\ fn = "balance_byte"
  /\ pc = "done"
  /\ data[1] = 255
  /\ bal.attempts = 3
  /\ popcount(bal.ret) = 5

\* the seed of the running generator: the argument of a direct call, the
\* first 8 digits of the base digest in a digest
RunningSeed == IF fn \in DigestFns THEN HexSeed(base_digest) ELSE data

\* C28: the generator never stops by reaching 1: the state after a step of
\* the first loop is not 1, a first loop that started runs its 100 steps, the
\* returned sequence is empty exactly when seed & 0xFFFFFFFF is 1, and the
\* digest mixes 0 or exactly 8 byte pairs.
GeneratorNeverReachesOne ==
  GeneratorRuns =>
    /\ (pc = "first_loop" /\ cz.sequence_length > 0) => cz.state # WOne
    /\ pc = "second_loop" =>
         IF Mask32(RunningSeed) = WOne THEN cz.sequence = <<>>
         ELSE Len(cz.sequence) >= FirstLoopCap
    /\ pc \in {"mix", "done"} =>
         /\ cz.sequence = <<>> <=> Mask32(RunningSeed) = WOne
         /\ cz.sequence # <<>> => Len(cz.sequence) >= FirstLoopCap
    /\ pc = "mix" => PairCount \in {0, sequence_used}

\* the first loop of a direct call made its 100 steps, none of them to 1
FullFirstLoopWitness ==
  /\ fn = "strengthened_collatz_sequence"
  /\ pc = "second_loop"
  /\ cz.sequence_length = 0
  /\ Len(cz.sequence) = FirstLoopCap
  /\ cz.state # WOne
  /\ \A i \in 2..FirstLoopCap : cz.sequence[i] # WOne

\* the base digest as the bytearray the pair loop starts from
BaseBytes == FromHex(base_digest)

\* C29: the pair loop rewrites bytes 0..15 of the 20-byte base digest only,
\* pair (2i, 2i+1) in iteration i with the low byte of sequence[i] as salt;
\* its guard idx + 1 < 20 holds in every iteration, bytes 16..19 and the pairs
\* not yet reached are those of the base digest, and finalize_state is handed
\* the bytes the first 8 values made.
PairLoopFrame ==
  [][(fn \in DigestFns /\ pc = "mix") =>
       /\ Len(mixed_hash) = 20
       /\ pair <= sequence_used
       /\ \A j \in (2 * pair + 1)..20 : mixed_hash[j] = BaseBytes[j]
       /\ pc' = "mix" =>
            /\ pair' = pair + 1
            /\ 2 * pair + 1 < Len(mixed_hash)
            /\ pair < sequence_used
            /\ \A j \in 1..20 : j \notin {2 * pair + 1, 2 * pair + 2}
                                  => mixed_hash'[j] = mixed_hash[j]
            /\ <<mixed_hash'[2 * pair + 1], mixed_hash'[2 * pair + 2]>>
                 = mix_bytes(mixed_hash[2 * pair + 1], mixed_hash[2 * pair + 2],
                             cz.sequence[pair + 1][1])
       /\ pc' = "done" =>
            /\ pair = Min(sequence_used, Len(cz.sequence))
            /\ final_hash' = finalize_state(mixed_hash)]_vars

\* a digest returned after 8 pairs: bytes 0..15 were rewritten, 16..19 not
PairLoopWitness ==
  /\ fn \in DigestFns
  /\ pc = "done"
  /\ pair = sequence_used
  /\ Len(cz.sequence) > sequence_used
  /\ SubSeq(mixed_hash, 1, 16) # SubSeq(BaseBytes, 1, 16)
  /\ SubSeq(mixed_hash, 17, 20) = SubSeq(BaseBytes, 17, 20)

(***************************************************************************)
(* sbox_scramble called on its own (specification SpecSbox)                *)
(***************************************************************************)
\* the arguments 0..MaxSboxInput are enumerated: every byte value and some
\* integers above 255
MaxSboxInput == 260

InitSbox == \E x \in 0..MaxSboxInput : Start("sbox_scramble", <<x>>, FALSE)

SboxCall ==
  /\ fn = "sbox_scramble"
  /\ pc = "call"
  /\ ret' = <<sbox_scramble(data[1])>>
  /\ pc' = "done"
  /\ UNCHANGED <<use_jit, fn, data, store, loopv, tailv, bal, log, parv>>

NextSbox == SboxCall

SpecSbox == InitSbox /\ [][NextSbox]_vars

\* C24: SBOX is a permutation of the byte values: it has 256 entries, every
\* value 0..255 occurs in it exactly once, and sbox_scramble(x), the entry at
\* x & 0xFF, is a bijection on 0..255.
SboxIsPermutation ==
  /\ Len(SBOX) = 256
  /\ (fn = "sbox_scramble" /\ pc = "done") =>
       /\ ret[1] \in 0..255
       /\ ret[1] = SBOX[(data[1] % 256) + 1]
       /\ Cardinality({k \in 1..256 : SBOX[k] = ret[1]}) = 1
       /\ \E k \in 1..256 : SBOX[k] = data[1] % 256
       /\ \A y \in 0..255 : sbox_scramble(y) = ret[1] => y = data[1] % 256

\* the entry at x & 0xFF was returned for an x above 255
SboxWitness ==
  /\ fn = "sbox_scramble"
  /\ pc = "done"
  /\ data[1] = 256
  /\ ret[1] = SBOX[1]

(***************************************************************************)
(* firewall_gateway/analytics/analytics_engine.py: the device approval     *)
(* methods of AnalyticsEngine.  A dict is a function on its keys, a str is *)
(* the sequence of its characters, datetime.now().isoformat() is one of    *)
(* the strings of Timestamps.                                              *)
(***************************************************************************)
\* the printable ASCII characters, from chr(32) to chr(126); chr(96), which
\* no enumerated string holds, is written "chr(96)"
AsciiChars ==
  <<" ", "!", "\"", "#", "$", "%", "&", "'", "(", ")", "*", "+", ",", "-", ".", "/",
    "0", "1", "2", "3", "4", "5", "6", "7", "8", "9", ":", ";", "<", "=", ">", "?",
    "@", "A", "B", "C", "D", "E", "F", "G", "H", "I", "J", "K", "L", "M", "N", "O",
    "P", "Q", "R", "S", "T", "U", "V", "W", "X", "Y", "Z", "[", "\\", "]", "^", "_",
    "chr(96)", "a", "b", "c", "d", "e", "f", "g", "h", "i", "j", "k", "l", "m", "n", "o",
    "p", "q", "r", "s", "t", "u", "v", "w", "x", "y", "z", "{", "|", "}", "~">>

\* ord(c)
Ord(c) == 31 + (CHOOSE k \in 1..Len(AsciiChars) : AsciiChars[k] = c)

\* text.encode() of a string of ASCII characters
Encode(text) == Bytes([k \in 1..Len(text) |-> Ord(text[k])])

\* str(n) for n >= 0
RECURSIVE IntText(_)
IntText(n) ==
  IF n < 10 THEN <<DecimalDigits[n + 1]>>
  ELSE Append(IntText(n \div 10), DecimalDigits[(n % 10) + 1])

\* ''.join(str(x) for x in sequence)
JoinText(sequence) ==
  FoldRange(LAMBDA text, k : text \o IntText(sequence[k + 1]), <<>>, 0, Len(sequence))

\* needle in text
Contains(text, needle) ==
  \E k \in 0..(Len(text) - Len(needle)) : SubSeq(text, k + 1, k + Len(needle)) = needle

\* start_num of _generate_collatz_sequence (lines 469-475): int() of the text
\* after the last dot, for a text of decimal digits, and a number made of
\* SHA-256 for a text int() rejects
engine_start_num(ip_address) ==
  Let(SplitDots(ip_address)[Len(SplitDots(ip_address))],
      LAMBDA last :
        IF last # <<>> /\ \A k \in 1..Len(last) : IsDecimalDigit(last[k])
        THEN OctetNumber(last) * 100
        ELSE Let(Sha256Digest(Encode(ip_address)),
                 LAMBDA h :
                   ((((((h[1] * 256 + h[2]) % 10000) * 256 + h[3]) % 10000) * 256
                      + h[4]) % 10000) + 100))

engine_sequence_cap == 100

\* AnalyticsEngine._generate_collatz_sequence (lines 466-485)
engine_collatz_sequence(ip_address) ==
  FoldRange(LAMBDA st, k :
              IF st.num = 1 THEN st
              ELSE [sequence |-> Append(st.sequence, st.num),
                    num |-> IF st.num % 2 = 0 THEN st.num \div 2 ELSE 3 * st.num + 1],
            [sequence |-> <<>>, num |-> engine_start_num(ip_address)],
            0, engine_sequence_cap).sequence

\* AnalyticsEngine._generate_collatz_hash (lines 487-526): the SHA1-E3 digest
\* of the digits of the sequence, or 16 digits of SHA-256 when the import of
\* securehash_project fails
engine_collatz_hash(ip_address, importable, jit) ==
  Let(Encode(JoinText(engine_collatz_sequence(ip_address))),
      LAMBDA seq_bytes :
        IF importable THEN enhanced_sha1_signature(seq_bytes, jit)
        ELSE SubSeq(Hex(Sha256Digest(seq_bytes)), 1, 16))

\* the addresses that are enumerated: the hosts 0.0.0.1 to 0.0.0.MaxDevices
MaxDevices == 2

DeviceIps == {<<"0", ".", "0", ".", "0", ".">> \o IntText(k) : k \in 1..MaxDevices}

UserAgents == {<<"i", "P", "h", "o", "n", "e">>, <<"c", "u", "r", "l">>}

Timestamps == {"2025-01-01T00:00:00", "2025-01-01T00:05:01"}

\* the hash of every enumerated address, computed once
DeviceHashes ==
  [ip \in DeviceIps |->
     [importable \in BOOLEAN |->
        [jit \in BOOLEAN |-> engine_collatz_hash(ip, importable, jit)]]]

\* device_type of register_device (lines 626-634)
device_type_of(user_agent) ==
  IF Contains(user_agent, <<"i", "P", "h", "o", "n", "e">>)
     \/ Contains(user_agent, <<"i", "P", "a", "d">>) THEN "iOS"
  ELSE IF Contains(user_agent, <<"A", "n", "d", "r", "o", "i", "d">>) THEN "Android"
  ELSE IF Contains(user_agent, <<"W", "i", "n", "d", "o", "w", "s">>) THEN "Windows"
  ELSE IF Contains(user_agent, <<"M", "a", "c", "i", "n", "t", "o", "s", "h">>) THEN "Mac"
  ELSE "Unknown"

\* d with d[key] = value
DictSet(d, key, value) == (key :> value) @@ d

\* del d[key]
DictDel(d, key) == [k \in DOMAIN d \ {key} |-> d[k]]

\* _save_persistent_data (lines 1019-1049)
save_persistent_data(engine) ==
  [engine EXCEPT !.files = [whitelist |-> engine.whitelist,
                            device_registry |-> engine.device_registry,
                            pending_devices |-> engine.pending_devices,
                            collatz_sequences |-> engine.collatz_sequences,
                            active_sessions |-> engine.active_sessions]]

\* self._generate_collatz_hash(ip_address) as a statement: the engine with
\* collatz_sequences[ip_address] stored
WithCollatzHash(engine, ip_address, collatz_hash) ==
  [engine EXCEPT !.collatz_sequences =
     DictSet(@, ip_address, [sequence |-> engine_collatz_sequence(ip_address),
                             hash |-> collatz_hash])]

\* every method below: the engine afterwards and the dict returned, of which
\* the key success is kept ("absent" where the dict has no such key)

\* whitelist_ip (lines 528-544)
whitelist_ip(engine, ip_address, now, collatz_hash) ==
  Let(WithCollatzHash(engine, ip_address, collatz_hash),
      LAMBDA e :
        [engine |-> save_persistent_data(
           [e EXCEPT !.whitelist =
                       DictSet(@, ip_address,
                               [hash |-> collatz_hash, timestamp |-> now,
                                device_type |->
                                  IF ip_address \in DOMAIN e.device_registry
                                  THEN e.device_registry[ip_address].device_type
                                  ELSE "Unknown"]),
                     !.ip_status = DictSet(@, ip_address, "allowed")]),
         success |-> "absent"])

\* remove_from_whitelist (lines 603-613)
remove_from_whitelist(engine, ip_address) ==
  IF ip_address \in DOMAIN engine.whitelist
  THEN [engine |-> save_persistent_data(
          [engine EXCEPT !.whitelist = DictDel(@, ip_address),
                         !.ip_status = DictSet(@, ip_address, "unknown"),
                         !.active_sessions = DictDel(@, ip_address)]),
        success |-> "True"]
  ELSE [engine |-> engine, success |-> "False"]

\* register_device (lines 624-656)
register_device(engine, ip_address, user_agent, now) ==
  Let([engine EXCEPT !.device_registry =
         DictSet(@, ip_address, [device_type |-> device_type_of(user_agent),
                                 user_agent |-> user_agent, timestamp |-> now])],
      LAMBDA e :
        [engine |-> save_persistent_data(
           IF ip_address \notin DOMAIN e.whitelist
           THEN [e EXCEPT !.pending_devices =
                   DictSet(@, ip_address,
                           [device_type |-> device_type_of(user_agent),
                            user_agent |-> user_agent, timestamp |-> now,
                            status |-> "pending"])]
           ELSE e),
         success |-> "absent"])

\* approve_device (lines 662-692)
approve_device(engine, ip_address, now, collatz_hash) ==
  IF ip_address \notin DOMAIN engine.pending_devices
  THEN [engine |-> engine, success |-> "False"]
  ELSE Let(WithCollatzHash(engine, ip_address, collatz_hash),
           LAMBDA e :
             [engine |-> save_persistent_data(
                [e EXCEPT !.approved_hashes = DictSet(@, ip_address, collatz_hash),
                          !.whitelist =
                            DictSet(@, ip_address,
                                    [hash |-> collatz_hash, timestamp |-> now,
                                     device_type |->
                                       e.pending_devices[ip_address].device_type]),
                          !.ip_status = DictSet(@, ip_address, "allowed"),
                          !.pending_devices = DictDel(@, ip_address)]),
              success |-> "True"])

\* reject_device (lines 694-701)
reject_device(engine, ip_address) ==
  IF ip_address \notin DOMAIN engine.pending_devices
  THEN [engine |-> engine, success |-> "False"]
  ELSE [engine |-> save_persistent_data(
          [engine EXCEPT !.pending_devices = DictDel(@, ip_address)]),
        success |-> "True"]

(***************************************************************************)
(* One AnalyticsEngine and a sequence of calls of its device approval      *)
(* methods (specification SpecDevices)                                     *)
(***************************************************************************)
\* at most MaxDeviceCalls calls are made on the engine
MaxDeviceCalls == 3

NoFiles == [whitelist |-> <<>>, device_registry |-> <<>>, pending_devices |-> <<>>,
            collatz_sequences |-> <<>>, active_sessions |-> <<>>]

InitDevices == \E jit \in BOOLEAN : Start("AnalyticsEngine", <<>>, jit)

\* AnalyticsEngine() in an empty data directory (lines 46-93); importable
\* tells whether securehash_project can be imported
EngineNew ==
  /\ fn = "AnalyticsEngine"
  /\ pc = "call"
  /\ \E importable \in BOOLEAN :
       store' = [whitelist |-> <<>>, ip_status |-> <<>>, device_registry |-> <<>>,
                 pending_devices |-> <<>>, approved_hashes |-> <<>>,
                 collatz_sequences |-> <<>>, active_sessions |-> <<>>,
                 files |-> NoFiles, importable |-> importable]
  /\ pc' = "open"
  /\ UNCHANGED <<use_jit, fn, data, ret, loopv, tailv, bal, log, parv>>

\* the call made: the method and its address
DeviceCall(method, ip_address, r) ==
  /\ fn = "AnalyticsEngine"
  /\ pc = "open"
  /\ position < MaxDeviceCalls
  /\ store' = r.engine
  /\ ret' = [method |-> method, ip |-> ip_address, success |-> r.success]
  /\ position' = position + 1
  /\ UNCHANGED <<use_jit, fn, data, pc, offset, block, short_reads, sha1, mixed_block,
                 tailv, bal, log, parv>>

RegisterDevice ==
  \E ip \in DeviceIps, ua \in UserAgents, now \in Timestamps :
    DeviceCall("register_device", ip, register_device(store, ip, ua, now))

ApproveDevice ==
  \E ip \in DeviceIps, now \in Timestamps :
    DeviceCall("approve_device", ip,
               approve_device(store, ip, now, DeviceHashes[ip][store.importable][use_jit]))

RejectDevice ==
  \E ip \in DeviceIps : DeviceCall("reject_device", ip, reject_device(store, ip))

WhitelistIp ==
  \E ip \in DeviceIps, now \in Timestamps :
    DeviceCall("whitelist_ip", ip,
               whitelist_ip(store, ip, now, DeviceHashes[ip][store.importable][use_jit]))

RemoveFromWhitelist ==
  \E ip \in DeviceIps :
    DeviceCall("remove_from_whitelist", ip, remove_from_whitelist(store, ip))

NextDevices ==
  \/ EngineNew
  \/ RegisterDevice
  \/ ApproveDevice
  \/ RejectDevice
  \/ WhitelistIp
  \/ RemoveFromWhitelist

SpecDevices == InitDevices /\ [][NextDevices]_vars

\* C30: after every call no address is both in pending_devices and in
\* whitelist, and approve_device and reject_device on an address that is not
\* pending return success = False and change nothing.
PendingNeverWhitelisted ==
  [][(fn = "AnalyticsEngine" /\ pc = "open") =>
       /\ DOMAIN store'.pending_devices \cap DOMAIN store'.whitelist = {}
       /\ (/\ ret'.method \in {"approve_device", "reject_device"}
           /\ ret'.ip \notin DOMAIN store.pending_devices)
            => (ret'.success = "False" /\ store' = store)]_vars

(***************************************************************************)
(* firewall_gateway/analytics/advanced_security.py: the MFA challenge and  *)
(* the audit log of SHA1E3AdvancedSecurity.  datetime.now() is a number of *)
(* minutes after 2025-01-01T00:00:00, below 60.                            *)
(***************************************************************************)
\* datetime.isoformat()
isoformat(minutes) ==
  <<"2", "0", "2", "5", "-", "0", "1", "-", "0", "1", "T", "0", "0", ":">>
    \o <<DecimalDigits[(minutes \div 10) + 1], DecimalDigits[(minutes % 10) + 1]>>
    \o <<":", "0", "0">>

\* datetime.fromisoformat(text)
fromisoformat(text) == 10 * DecimalValue(text[15]) + DecimalValue(text[16])

\* timedelta(minutes=5), line 95
mfa_valid_minutes == 5

\* the limit of "if challenge['attempts'] >= 3", line 133
attempts_allowed == 3

\* secrets.token_hex(16) of the n-th call: 32 hexadecimal digits, taken to
\* differ from every id returned before
token_hex(n) == [k \in 1..(32 - Len(IntText(n))) |-> "0"] \o IntText(n)

\* f"{device_ip}:{admin_token}:{now}" hashed with SHA-256, lines 81-82
challenge_hash_of(device_ip, admin_token, now) ==
  Hex(Sha256Digest(Encode(device_ip \o <<":">> \o admin_token \o <<":">> \o isoformat(now))))

\* create_sha1e3_mfa_challenge (lines 68-108): the object afterwards and the
\* challenge id returned
create_sha1e3_mfa_challenge(security, admin_token, device_ip, now, challenge_hash, collatz_hash) ==
  Let(token_hex(Len(security.issued) + 1),
      LAMBDA challenge_id :
        [security |->
           [WithCollatzHash(security, device_ip, collatz_hash)
              EXCEPT !.mfa_challenges =
                       DictSet(@, challenge_id,
                               [challenge_hash |-> challenge_hash,
                                collatz_challenge |-> collatz_hash,
                                device_ip |-> device_ip,
                                admin_token |-> admin_token,
                                created_at |-> isoformat(now),
                                expires_at |-> isoformat(now + mfa_valid_minutes),
                                attempts |-> 0,
                                verified |-> FALSE]),
                     !.issued = Append(@, [challenge_id |-> challenge_id,
                                           challenge_hash |-> challenge_hash,
                                           expires_at |->
                                             isoformat(now + mfa_valid_minutes)])],
         challenge_id |-> challenge_id])

\* the dict verify_sha1e3_mfa returns: its keys success, error and
\* attempts_remaining, and whether the call reached the comparison
MfaResult(security, compared, success, error, keys, attempts_remaining) ==
  [security |-> security, compared |-> compared, success |-> success, error |-> error,
   keys |-> keys, attempts_remaining |-> attempts_remaining]

\* a faulty variant: the attempt limit is not tested
verify_sha1e3_mfa_unlimited(security, challenge_id, provided_hash, now) ==
  IF challenge_id \notin DOMAIN security.mfa_challenges
  THEN MfaResult(security, FALSE, FALSE, "Invalid challenge ID", {"success", "error"}, 0)
  ELSE IF now > fromisoformat(security.mfa_challenges[challenge_id].expires_at)
  THEN MfaResult([security EXCEPT !.mfa_challenges = DictDel(@, challenge_id)],
                 FALSE, FALSE, "Challenge expired", {"success", "error"}, 0)
  ELSE Let([security EXCEPT !.mfa_challenges[challenge_id].attempts = @ + 1],
           LAMBDA counted :
             IF provided_hash = security.mfa_challenges[challenge_id].challenge_hash
             THEN MfaResult([counted EXCEPT !.mfa_challenges[challenge_id].verified = TRUE],
                            TRUE, TRUE, "",
                            {"success", "message", "verification_token",
                             "valid_for_hours"}, 0)
             ELSE MfaResult(counted, TRUE, FALSE, "Invalid hash response",
                            {"success", "error", "attempts_remaining"},
                            attempts_allowed
                              - counted.mfa_challenges[challenge_id].attempts))

\* verify_sha1e3_mfa (lines 110-153)
verify_sha1e3_mfa(security, challenge_id, provided_hash, now) ==
  IF challenge_id \notin DOMAIN security.mfa_challenges
  THEN MfaResult(security, FALSE, FALSE, "Invalid challenge ID", {"success", "error"}, 0)
  ELSE IF now > fromisoformat(security.mfa_challenges[challenge_id].expires_at)
  THEN MfaResult([security EXCEPT !.mfa_challenges = DictDel(@, challenge_id)],
                 FALSE, FALSE, "Challenge expired", {"success", "error"}, 0)
  ELSE IF security.mfa_challenges[challenge_id].attempts >= attempts_allowed
  THEN MfaResult([security EXCEPT !.mfa_challenges = DictDel(@, challenge_id)],
                 FALSE, FALSE, "Too many attempts", {"success", "error", "blocked"}, 0)
  ELSE Let([security EXCEPT !.mfa_challenges[challenge_id].attempts = @ + 1],
           LAMBDA counted :
             IF provided_hash = security.mfa_challenges[challenge_id].challenge_hash
             THEN MfaResult([counted EXCEPT !.mfa_challenges[challenge_id].verified = TRUE],
                            TRUE, TRUE, "",
                            {"success", "message", "verification_token",
                             "valid_for_hours"}, 0)
             ELSE MfaResult(counted, TRUE, FALSE, "Invalid hash response",
                            {"success", "error", "attempts_remaining"},
                            attempts_allowed
                              - counted.mfa_challenges[challenge_id].attempts))

(***************************************************************************)
(* One SHA1E3AdvancedSecurity and a sequence of MFA calls (specification   *)
(* SpecMfa).  offset is the clock, position counts the calls, log is the   *)
(* history of the verify_sha1e3_mfa calls.                                 *)
(***************************************************************************)
\* at most MaxMfaCalls calls are made
MaxMfaCalls == 6

\* at most MaxChallenges challenges are created
MaxChallenges == 1

\* the clock stays within 0..MaxClock and stands still or advances by
\* ClockStep minutes before a call
MaxClock == 6
ClockStep == 3

AdminToken == <<"t", "o", "k", "e", "n">>

MfaDeviceIp == <<"0", ".", "0", ".", "0", ".", "1">>

\* the challenge hash for every time of creation, computed once
ChallengeHashes ==
  [now \in 0..(MaxClock + 1) |-> challenge_hash_of(MfaDeviceIp, AdminToken, now)]

\* the argument is the environment: whether securehash_project can be imported
InitSecurity ==
  \E jit \in BOOLEAN, importable \in BOOLEAN :
    Start("SHA1E3AdvancedSecurity", [importable |-> importable], jit)

\* SHA1E3AdvancedSecurity(analytics_engine) on an empty data directory
\* (lines 33-66); None is the empty sequence, issued is the history of the
\* challenges created
SecurityNew ==
  /\ fn = "SHA1E3AdvancedSecurity"
  /\ pc = "call"
  /\ store' = [mfa_challenges |-> <<>>, audit_log |-> <<>>, last_audit_hash |-> <<>>,
               audit_log_file |-> [exists |-> FALSE, contents |-> <<>>],
               collatz_sequences |-> <<>>, issued |-> <<>>,
               importable |-> data.importable]
  /\ pc' = "open"
  /\ UNCHANGED <<use_jit, fn, data, ret, loopv, tailv, bal, log, parv>>

\* the times datetime.now() may return in the next call
ClockNow == {t \in {offset, offset + ClockStep} : t <= MaxClock}

CreateMfaChallenge ==
  /\ fn = "SHA1E3AdvancedSecurity"
  /\ pc = "open"
  /\ position < MaxMfaCalls
  /\ Len(store.issued) < MaxChallenges
  /\ \E now \in ClockNow :
       /\ offset' = now
       /\ LET r == create_sha1e3_mfa_challenge(
                     store, AdminToken, MfaDeviceIp, now, ChallengeHashes[now],
                     DeviceHashes[MfaDeviceIp][store.importable][use_jit])
          IN  /\ store' = r.security
              /\ ret' = [method |-> "create_sha1e3_mfa_challenge",
                         challenge_id |-> r.challenge_id]
  /\ position' = position + 1
  /\ UNCHANGED <<use_jit, fn, data, pc, block, short_reads, sha1, mixed_block, tailv, bal,
                 log, parv>>

\* the hashes a caller answers with: the hash of a challenge, a wrong one
ProvidedHashes ==
  {store.issued[k].challenge_hash : k \in 1..Len(store.issued)} \cup {wrong_hash}

\* the ids a caller names: those issued and one that was never issued
NamedIds ==
  {store.issued[k].challenge_id : k \in 1..Len(store.issued)}
    \cup {token_hex(MaxChallenges + 1)}

VerifyMfa ==
  /\ fn = "SHA1E3AdvancedSecurity"
  /\ pc = "open"
  /\ position < MaxMfaCalls
  /\ \E now \in ClockNow, id \in NamedIds, provided \in ProvidedHashes :
       /\ offset' = now
       /\ LET r == verify_sha1e3_mfa(store, id, provided, now)
          IN  /\ store' = r.security
              /\ ret' = [method |-> "verify_sha1e3_mfa", challenge_id |-> id]
              /\ log' = Append(log, [challenge_id |-> id, provided_hash |-> provided,
                                     now |-> now, compared |-> r.compared,
                                     success |-> r.success, error |-> r.error,
                                     keys |-> r.keys,
                                     attempts_remaining |-> r.attempts_remaining])
  /\ position' = position + 1
  /\ UNCHANGED <<use_jit, fn, data, pc, block, short_reads, sha1, mixed_block, tailv, bal,
                 parv>>

NextMfa ==
  \/ SecurityNew
  \/ CreateMfaChallenge
  \/ VerifyMfa

SpecMfa == InitSecurity /\ [][NextMfa]_vars

\* of the calls before the k-th for the same challenge id: how many compared
\* the hash, and how many came after three comparisons
ComparesBefore(k) ==
  Cardinality({j \in 1..(k - 1) :
                 log[j].challenge_id = log[k].challenge_id /\ log[j].compared})

RefusedBefore(k) ==
  Cardinality({j \in 1..(k - 1) :
                 /\ log[j].challenge_id = log[k].challenge_id
                 /\ ComparesBefore(j) = attempts_allowed})

\* the challenge the k-th call names, as it was created
IssuedAs(k) ==
  store.issued[CHOOSE n \in 1..Len(store.issued) :
                 store.issued[n].challenge_id = log[k].challenge_id]

Quote == <<"\"">>

\* json.dumps(text) of a str of printable ASCII characters
JsonString(text) ==
  Quote
    \o FoldRange(LAMBDA out, k :
                   IF text[k + 1] \in {"\"", "\\"} THEN out \o <<"\\", text[k + 1]>>
                   ELSE Append(out, text[k + 1]),
                 <<>>, 0, Len(text))
    \o Quote

\* the items of a dict in the order of sort_keys=True
SortedItems(items) ==
  FoldRange(LAMBDA sorted, k :
              Let(Cardinality({j \in 1..Len(sorted) :
                                 BytesLess(Encode(sorted[j][1]), Encode(items[k + 1][1]))}),
                  LAMBDA before :
                    SubSeq(sorted, 1, before) \o <<items[k + 1]>>
                      \o SubSeq(sorted, before + 1, Len(sorted))),
            <<>>, 0, Len(items))

\* json.dumps raises TypeError for the dict
NotSerializable(details) == \E k \in 1..Len(details) : details[k][2] = "object"

\* json.dumps(details, sort_keys=True)
JsonDetails(details) ==
  <<"{">>
    \o FoldRange(LAMBDA out, k :
                   out \o (IF k > 0 THEN <<",", " ">> ELSE <<>>)
                     \o JsonString(SortedItems(details)[k + 1][1]) \o <<":", " ">>
                     \o JsonString(SortedItems(details)[k + 1][3]),
                 <<>>, 0, Len(details))
    \o <<"}">>

JsonKey(name) == JsonString(name) \o <<":", " ">>

\* json.dumps(entry, sort_keys=True) of an entry without its entry_hash
\* (lines 343 and 383-385)
JsonEntry(entry) ==
  <<"{">>
    \o JsonKey(<<"a", "c", "t", "i", "o", "n">>) \o JsonString(entry.action)
    \o <<",", " ">> \o JsonKey(<<"a", "d", "m", "i", "n", "_", "i", "d">>)
    \o JsonString(entry.admin_id)
    \o <<",", " ">> \o JsonKey(<<"d", "e", "t", "a", "i", "l", "s">>)
    \o JsonDetails(entry.details)
    \o <<",", " ">>
    \o JsonKey(<<"p", "r", "e", "v", "i", "o", "u", "s", "_", "h", "a", "s", "h">>)
    \o JsonString(entry.previous_hash)
    \o <<",", " ">>
    \o JsonKey(<<"s", "e", "q", "u", "e", "n", "c", "e", "_", "n", "u", "m">>)
    \o IntText(entry.sequence_num)
    \o <<",", " ">> \o JsonKey(<<"t", "i", "m", "e", "s", "t", "a", "m", "p">>)
    \o JsonString(entry.timestamp)
    \o <<",", " ">> \o JsonKey(<<"u", "s", "e", "r", "_", "i", "p">>)
    \o JsonString(entry.user_ip)
    \o <<"}">>

\* hashlib.sha256(entry_data.encode()).hexdigest()
entry_hash_of(entry) == Hex(Sha256Digest(Encode(JsonEntry(entry))))

genesis == <<"g", "e", "n", "e", "s", "i", "s">>

\* "if len(self.audit_log) % 100 == 0", line 352
save_every == 100

\* _save_security_data (lines 553-561)
save_security_data(security) ==
  [security EXCEPT !.audit_log_file = [exists |-> TRUE, contents |-> security.audit_log]]

\* the entry of create_audit_log_entry before it is hashed (lines 333-341)
NewEntry(security, action, user_ip, admin_id, details, now, previous_hash) ==
  [timestamp |-> isoformat(now), action |-> action, user_ip |-> user_ip,
   admin_id |-> admin_id, details |-> details, previous_hash |-> previous_hash,
   sequence_num |-> Len(security.audit_log)]

\* the entry appended and self.last_audit_hash set (lines 346-354)
WithEntry(security, entry, entry_hash) ==
  Let([security EXCEPT
         !.audit_log = Append(@, [timestamp |-> entry.timestamp, action |-> entry.action,
                                  user_ip |-> entry.user_ip, admin_id |-> entry.admin_id,
                                  details |-> entry.details,
                                  previous_hash |-> entry.previous_hash,
                                  sequence_num |-> entry.sequence_num,
                                  entry_hash |-> entry_hash]),
         !.last_audit_hash = entry_hash],
      LAMBDA appended :
        [security |-> IF Len(appended.audit_log) % save_every = 0
                      THEN save_security_data(appended) ELSE appended,
         raised |-> FALSE, entry_hash |-> entry_hash])

\* a faulty variant: every entry is chained to 'genesis'
create_audit_log_entry_unchained(security, action, user_ip, admin_id, details, now) ==
  IF NotSerializable(details)
  THEN [security |-> security, raised |-> TRUE, entry_hash |-> <<>>]
  ELSE Let(NewEntry(security, action, user_ip, admin_id, details, now, genesis),
           LAMBDA entry : WithEntry(security, entry, entry_hash_of(entry)))

\* create_audit_log_entry (lines 318-355): the object afterwards, whether
\* json.dumps raised, and the entry hash returned
create_audit_log_entry(security, action, user_ip, admin_id, details, now) ==
  IF NotSerializable(details)
  THEN [security |-> security, raised |-> TRUE, entry_hash |-> <<>>]
  ELSE Let(NewEntry(security, action, user_ip, admin_id, details, now,
                    IF security.last_audit_hash # <<>> THEN security.last_audit_hash
                    ELSE genesis),
           LAMBDA entry : WithEntry(security, entry, entry_hash_of(entry)))

\* one iteration of the loop of verify_audit_log_integrity (lines 371-394)
VerifyEntry(st, entry, i) ==
  Let(entry_hash_of(entry),
      LAMBDA calculated_hash :
        [previous_hash |-> entry.entry_hash,
         corrupted_entries |->
           st.corrupted_entries
             \o (IF entry.previous_hash # st.previous_hash
                 THEN <<[index |-> i, reason |-> "Previous hash mismatch"]>> ELSE <<>>)
             \o (IF calculated_hash # entry.entry_hash
                 THEN <<[index |-> i, reason |-> "Entry hash mismatch"]>> ELSE <<>>)])

\* verify_audit_log_integrity (lines 357-403)
verify_audit_log_integrity(security) ==
  Let(FoldRange(LAMBDA st, i : VerifyEntry(st, security.audit_log[i + 1], i),
                [previous_hash |-> genesis, corrupted_entries |-> <<>>],
                0, Len(security.audit_log)).corrupted_entries,
      LAMBDA corrupted_entries :
        [method |-> "verify_audit_log_integrity",
         success |-> Len(corrupted_entries) = 0,
         integrity_ok |-> Len(corrupted_entries) = 0,
         entries_checked |-> Len(security.audit_log),
         corrupted_entries |-> corrupted_entries])

(***************************************************************************)
(* One SHA1E3AdvancedSecurity with an empty log and a sequence of audit    *)
(* calls (specification SpecAudit).  offset is the clock, position counts  *)
(* the calls of create_audit_log_entry, log is their history.              *)
(***************************************************************************)
\* at most MaxAuditCalls calls of create_audit_log_entry are made
MaxAuditCalls == 3

AuditDetails ==
  {<< <<<<"r", "e", "a", "s", "o", "n">>, "str", <<"o", "k">>>>,
      <<<<"b", "y">>, "str", <<"\"", "a", "\"">>>> >>,
   << <<<<"w", "h", "e", "n">>, "object", <<>>>> >>}

InitAudit == Start("SHA1E3AdvancedSecurity", [importable |-> TRUE], FALSE)

CreateAuditLogEntry ==
  /\ fn = "SHA1E3AdvancedSecurity"
  /\ pc = "open"
  /\ position < MaxAuditCalls
  /\ \E now \in ClockNow, details \in AuditDetails :
       /\ offset' = now
       /\ Let(create_audit_log_entry(store, <<"l", "o", "g", "i", "n">>, MfaDeviceIp,
                                     <<"a", "d", "m", "i", "n">>, details, now),
              LAMBDA r :
                /\ store' = r.security
                /\ ret' = [method |-> "create_audit_log_entry", raised |-> r.raised,
                           entry_hash |-> r.entry_hash]
                /\ log' = Append(log, [raised |-> r.raised,
                                       entry_hash |-> r.entry_hash]))
  /\ position' = position + 1
  /\ UNCHANGED <<use_jit, fn, data, pc, block, short_reads, sha1, mixed_block, tailv, bal,
                 parv>>

VerifyAuditLogIntegrity ==
  /\ fn = "SHA1E3AdvancedSecurity"
  /\ pc = "open"
  /\ ret' = verify_audit_log_integrity(store)
  /\ UNCHANGED <<use_jit, fn, data, store, pc, loopv, tailv, bal, log, parv>>

NextAudit ==
  \/ SecurityNew
  \/ CreateAuditLogEntry
  \/ VerifyAuditLogIntegrity

SpecAudit == InitAudit /\ [][NextAudit]_vars

\* the entry hashes that the calls of create_audit_log_entry returned
ReturnedHashes ==
  FoldRange(LAMBDA hs, k : IF log[k + 1].raised THEN hs ELSE Append(hs, log[k + 1].entry_hash),
            <<>>, 0, Len(log))

====
